---------------------------- MODULE Spec2Model ----------------------------
(***************************************************************************)
(* A model of the machid library (src/machid.go): hardware-identifier      *)
(* resolution with its tiered fallback, the persistent fallback            *)
(* provisioner, the digest derivation, the process-wide configuration and  *)
(* the identifier cache.                                                   *)
(*                                                                         *)
(* Go strings are modelled as sequences of one-character strings, so that  *)
(* trimming, concatenation, decimal formatting and hex encoding are        *)
(* computed rather than assumed.  Enumerated things (operation names,      *)
(* error identities, warning messages, file names) are TLA+ strings.       *)
(***************************************************************************)
EXTENDS Integers, Sequences, FiniteSets, TLC

(***************************************************************************)
(* Bounds of the model.                                                    *)
(***************************************************************************)
\* salts are "", "a", "aa", ... up to this length
MaxSaltLen == 2
\* the random source can produce this many different byte strings
NumRandom == 2
\* the clock can show this many different instants (besides instant 0)
MaxTime == 1
\* the largest action count the cache is driven to
MaxCount == 2

(***************************************************************************)
(* Program constants.                                                      *)
(***************************************************************************)
\* fallbackDataLength: 64 random bytes = 128 hex characters
fallbackDataLength == 64
\* permissions of the fallback directory (0700) and of a token file (0600)
DirPerm == 448
FilePerm == 384

fallbackSerialFile == ".mserial"
fallbackUUIDFile == ".muuid"

(***************************************************************************)
(* Strings.                                                                *)
(***************************************************************************)
EmptyStr == << >>

\* unicode.IsSpace on the characters that occur in the model
IsSpace(c) == c \in {" ", "\t", "\n", "\r"}

RECURSIVE TrimLeft(_)
TrimLeft(s) ==
    IF s = << >> THEN << >>
    ELSE IF IsSpace(Head(s)) THEN TrimLeft(Tail(s))
    ELSE s

RECURSIVE TrimRight(_)
TrimRight(s) ==
    IF s = << >> THEN << >>
    ELSE IF IsSpace(s[Len(s)]) THEN TrimRight(SubSeq(s, 1, Len(s) - 1))
    ELSE s

\* strings.TrimSpace
TrimSpace(s) == TrimRight(TrimLeft(s))

DecDigits == <<"0", "1", "2", "3", "4", "5", "6", "7", "8", "9">>

\* fmt.Sprintf("%d", n) for n >= 0
RECURSIVE Itoa(_)
Itoa(n) ==
    IF n < 10 THEN <<DecDigits[n + 1]>>
    ELSE Itoa(n \div 10) \o <<DecDigits[(n % 10) + 1]>>

HexDigits == <<"0", "1", "2", "3", "4", "5", "6", "7",
               "8", "9", "a", "b", "c", "d", "e", "f">>

\* hex.EncodeToString: two lower-case hex digits per byte
RECURSIVE EncodeToString(_)
EncodeToString(bytes) ==
    IF bytes = << >> THEN << >>
    ELSE <<HexDigits[(Head(bytes) \div 16) + 1], HexDigits[(Head(bytes) % 16) + 1]>>
         \o EncodeToString(Tail(bytes))

\* the concatenation of a list of strings, in order
RECURSIVE Concat(_)
Concat(parts) ==
    IF parts = << >> THEN << >>
    ELSE Head(parts) \o Concat(Tail(parts))

(***************************************************************************)
(* Errors.  An error value is the chain of its wrappers, outermost first;  *)
(* nil is the empty chain.                                                 *)
(***************************************************************************)
Nil == << >>
ErrNotRoot == <<"ErrNotRoot">>
ErrEmptySalt == <<"ErrEmptySalt">>
ErrNoHardwareID == <<"ErrNoHardwareID">>
ErrDmidecodeNotFound == <<"ErrDmidecodeNotFound">>
ErrStrictModeNoHardwareID == <<"ErrStrictModeNoHardwareID">>
ErrFallbackFileCreation == <<"ErrFallbackFileCreation">>
\* errors of the operating system and of the random source
ErrOS == <<"os error">>
ErrNotExist == <<"file does not exist">>
ErrPermission == <<"permission denied">>

\* fmt.Errorf("text: %w", err), and fmt.Errorf("%w: text", sentinel): the
\* result wraps err (or the sentinel); the text is kept for the record
Wrap(text, err) == <<text>> \o err

\* errors.Is(err, target) for a sentinel target
IsErr(err, target) ==
    \E i \in 1..Len(err) : SubSeq(err, i, Len(err)) = target

(***************************************************************************)
(* The hardware channels: the sysfs files and the dmidecode command.       *)
(***************************************************************************)
sysfsPaths ==
    [productSerial |-> "/sys/class/dmi/id/product_serial",
     productUUID   |-> "/sys/class/dmi/id/product_uuid",
     chassisSerial |-> "/sys/class/dmi/id/chassis_serial",
     boardSerial   |-> "/sys/class/dmi/id/board_serial"]

SysfsFiles ==
    {sysfsPaths.productSerial, sysfsPaths.productUUID,
     sysfsPaths.chassisSerial, sysfsPaths.boardSerial}

DmiKeywords ==
    {"system-serial-number", "chassis-serial-number",
     "baseboard-serial-number", "system-uuid"}

\* the placeholder texts a BIOS reports for a value it does not have
PlaceholderNone == <<"N", "o", "n", "e">>
PlaceholderNotSpecified == <<"N", "o", "t", " ", "S", "p", "e", "c", "i", "f", "i", "e", "d">>
PlaceholderOEM == <<"T", "o", " ", "B", "e", " ", "F", "i", "l", "l", "e", "d", " ", "B", "y", " ", "O", ".", "E", ".", "M", ".">>

\* what a source can hold: nothing readable, only white space, one of the
\* placeholders, or a value of its own (each followed by a line break, as
\* sysfs and dmidecode print it)
SourceKinds == {"absent", "blank", "none", "notspec", "oem", "value"}

SourceValue(name) ==
    CASE name = sysfsPaths.productSerial -> <<"P", "S">>
      [] name = sysfsPaths.chassisSerial -> <<"C", "S">>
      [] name = sysfsPaths.boardSerial -> <<"B", "S">>
      [] name = sysfsPaths.productUUID -> <<"P", "U">>
      [] name = "system-serial-number" -> <<"d", "S">>
      [] name = "chassis-serial-number" -> <<"d", "C">>
      [] name = "baseboard-serial-number" -> <<"d", "B">>
      [] name = "system-uuid" -> <<"d", "U">>

\* the bytes a source of the given kind delivers; ok = FALSE is a file that
\* cannot be read, or a dmidecode run that exits non-zero
RawSource(kind, name) ==
    CASE kind = "absent" -> [ok |-> FALSE, data |-> << >>]
      [] kind = "blank" -> [ok |-> TRUE, data |-> <<" ", "\n">>]
      [] kind = "none" -> [ok |-> TRUE, data |-> PlaceholderNone \o <<"\n">>]
      [] kind = "notspec" ->
            [ok |-> TRUE, data |-> <<" ">> \o PlaceholderNotSpecified \o <<"\n">>]
      [] kind = "oem" -> [ok |-> TRUE, data |-> PlaceholderOEM \o <<"\n">>]
      [] kind = "value" -> [ok |-> TRUE, data |-> SourceValue(name) \o <<"\n">>]

\* a machine: the kind of each sysfs file and of each dmidecode keyword,
\* and whether the dmidecode binary is installed
Machine(sys, installed, dmi) ==
    [sysfs |-> [f \in SysfsFiles |-> RawSource(sys[f], f)],
     installed |-> installed,
     dmidecode |-> [k \in DmiKeywords |-> RawSource(dmi[k], k)]]

AllSysfs(kind) == [f \in SysfsFiles |-> kind]
AllDmi(kind) == [k \in DmiKeywords |-> kind]

\* (a variant that lets the O.E.M. placeholder through)
readSysfsFileKeepsOEM(hw, path) ==
    IF ~hw.sysfs[path].ok THEN EmptyStr
    ELSE LET content == TrimSpace(hw.sysfs[path].data)
         IN  IF \/ content = EmptyStr
                \/ content = PlaceholderNone
                \/ content = PlaceholderNotSpecified
             THEN EmptyStr
             ELSE content

\* readSysfsFile: the trimmed content, "" when the file cannot be read or
\* holds a placeholder
readSysfsFile(hw, path) ==
    IF ~hw.sysfs[path].ok THEN EmptyStr
    ELSE LET content == TrimSpace(hw.sysfs[path].data)
         IN  IF \/ content = EmptyStr
                \/ content = PlaceholderNone
                \/ content = PlaceholderNotSpecified
                \/ content = PlaceholderOEM
             THEN EmptyStr
             ELSE content

\* getDmidecodeValue: (value, error)
getDmidecodeValue(hw, keyword) ==
    IF ~hw.installed THEN [val |-> EmptyStr, err |-> ErrDmidecodeNotFound]
    ELSE IF ~hw.dmidecode[keyword].ok THEN [val |-> EmptyStr, err |-> Nil]
    ELSE LET content == TrimSpace(hw.dmidecode[keyword].data)
         IN  IF \/ content = EmptyStr
                \/ content = PlaceholderNone
                \/ content = PlaceholderNotSpecified
                \/ content = PlaceholderOEM
             THEN [val |-> EmptyStr, err |-> Nil]
             ELSE [val |-> content, err |-> Nil]

(***************************************************************************)
(* Operating-system faults.  A call meets at most one: the named system    *)
(* call on the named file fails.                                           *)
(***************************************************************************)
NoFault == [op |-> "none", file |-> ""]
Fault(op, file) == [op |-> op, file |-> file]

TokenFiles == {fallbackSerialFile, fallbackUUIDFile}

\* mkdir: MkdirAll fails; rand: the random source fails; open: WriteFile
\* cannot open the file; write: WriteFile opened (created or truncated) the
\* file and failed to write it; remove: os.Remove fails on an existing file

(***************************************************************************)
(* The persistent fallback provisioner.  The fallback store is the         *)
(* directory /etc/.machid and its two token files.                         *)
(***************************************************************************)
NoFile == [exists |-> FALSE, data |-> << >>, mode |-> 0]
NoDir == [exists |-> FALSE, mode |-> 0, foreign |-> FALSE]
EmptyStore == [dir |-> NoDir, files |-> [f \in TokenFiles |-> NoFile]]

\* the byte strings the random source can deliver
RandomChoices == 1..NumRandom
RandomBytes(k, length) == [i \in 1..length |-> (k * 37 + i * 11) % 256]

\* the hex strings generateRandomHex(fallbackDataLength) can return
RandomHexTable ==
    [k \in RandomChoices |-> EncodeToString(RandomBytes(k, fallbackDataLength))]

\* (a variant that takes the length for a count of hex digits)
generateRandomHexHalf(k) ==
    EncodeToString(RandomBytes(k, fallbackDataLength \div 2))

\* generateRandomHex(fallbackDataLength), the random source delivering its
\* k-th byte string
generateRandomHex(k) == RandomHexTable[k]

\* os.MkdirAll(fallbackDir, 0700): creates the directory unless it exists
MkdirAll(store, perm) ==
    IF store.dir.exists THEN store
    ELSE [store EXCEPT !.dir = [exists |-> TRUE, mode |-> perm,
                               foreign |-> FALSE]]

\* os.WriteFile opens with O_CREATE|O_TRUNC: a new file gets perm, an
\* existing one keeps its mode and loses its content
OpenTrunc(store, name, perm) ==
    [store EXCEPT !.files[name] =
        [exists |-> TRUE, data |-> << >>,
         mode |-> IF @.exists THEN @.mode ELSE perm]]

WriteFile(store, name, data, perm) ==
    [OpenTrunc(store, name, perm) EXCEPT !.files[name].data = data]

\* (a variant that never looks at the existing file and always generates)
readOrCreateAlwaysCreates(store, name, fault, k) ==
    IF fault = Fault("rand", name)
    THEN [store |-> store, val |-> EmptyStr,
          err |-> Wrap("failed to generate random data", ErrFallbackFileCreation),
          generated |-> FALSE]
    ELSE IF fault = Fault("open", name)
    THEN [store |-> store, val |-> EmptyStr,
          err |-> Wrap("write failed", ErrFallbackFileCreation),
          generated |-> TRUE]
    ELSE IF fault = Fault("write", name)
    THEN [store |-> OpenTrunc(store, name, FilePerm), val |-> EmptyStr,
          err |-> Wrap("write failed", ErrFallbackFileCreation),
          generated |-> TRUE]
    ELSE [store |-> WriteFile(store, name, generateRandomHex(k), FilePerm),
          val |-> generateRandomHex(k), err |-> Nil, generated |-> TRUE]

\* readOrCreateFallbackFile(path); os.ReadFile of a file that exists is taken
\* to succeed (the callers are root)
readOrCreateFallbackFile(store, name, fault, k) ==
    LET file == store.files[name]
        content == TrimSpace(file.data)
    IN  IF file.exists /\ content # EmptyStr
        THEN [store |-> store, val |-> content, err |-> Nil,
              generated |-> FALSE]
        ELSE IF fault = Fault("rand", name)
        THEN [store |-> store, val |-> EmptyStr,
              err |-> Wrap("failed to generate random data", ErrFallbackFileCreation),
              generated |-> FALSE]
        ELSE IF fault = Fault("open", name)
        THEN [store |-> store, val |-> EmptyStr,
              err |-> Wrap("write failed", ErrFallbackFileCreation),
              generated |-> TRUE]
        ELSE IF fault = Fault("write", name)
        THEN [store |-> OpenTrunc(store, name, FilePerm), val |-> EmptyStr,
              err |-> Wrap("write failed", ErrFallbackFileCreation),
              generated |-> TRUE]
        ELSE [store |-> WriteFile(store, name, generateRandomHex(k), FilePerm),
              val |-> generateRandomHex(k), err |-> Nil, generated |-> TRUE]

\* the result of a provisioning call; generated: the tokens this call drew
\* from the random source and stored
NoEnsure ==
    [called |-> FALSE, serial |-> EmptyStr, uuid |-> EmptyStr, err |-> Nil,
     generated |-> {}]

\* a provisioning result without the store it left
EnsureView(e) ==
    [called |-> e.called, serial |-> e.serial, uuid |-> e.uuid,
     err |-> e.err, generated |-> e.generated]

EnsureResult(store, serial, uuid, err, generated) ==
    [store |-> store, called |-> TRUE, serial |-> serial, uuid |-> uuid,
     err |-> err, generated |-> generated]

\* ensureFallbackFiles(), the operating system behaving as fault says and
\* the random source delivering its k1-th and then its k2-th byte string
\* (a variant that generates both tokens anew as soon as one is missing)
ensureFallbackFilesRenewsBoth(store, fault, k1, k2) ==
    IF ~store.dir.exists /\ fault = Fault("mkdir", "")
    THEN EnsureResult(store, EmptyStr, EmptyStr,
                      Wrap("mkdir failed", ErrFallbackFileCreation), {})
    ELSE LET missing == \E f \in TokenFiles :
                            \/ ~store.files[f].exists
                            \/ TrimSpace(store.files[f].data) = EmptyStr
             base == IF missing
                     THEN [store EXCEPT !.files = [f \in TokenFiles |-> NoFile]]
                     ELSE store
             s == readOrCreateFallbackFile(MkdirAll(base, DirPerm),
                                           fallbackSerialFile, fault, k1)
         IN  IF s.err # Nil
             THEN EnsureResult(s.store, EmptyStr, EmptyStr, s.err, {})
             ELSE LET u == readOrCreateFallbackFile(s.store, fallbackUUIDFile,
                                                    fault, k2)
                      gs == IF s.generated THEN {fallbackSerialFile} ELSE {}
                  IN  IF u.err # Nil
                      THEN EnsureResult(u.store, EmptyStr, EmptyStr, u.err, gs)
                      ELSE EnsureResult(u.store, s.val, u.val, Nil,
                               gs \cup IF u.generated THEN {fallbackUUIDFile}
                                       ELSE {})

ensureFallbackFilesWith(store, fault, k1, k2) ==
    IF ~store.dir.exists /\ fault = Fault("mkdir", "")
    THEN EnsureResult(store, EmptyStr, EmptyStr,
                      Wrap("mkdir failed", ErrFallbackFileCreation), {})
    ELSE LET s == readOrCreateFallbackFile(MkdirAll(store, DirPerm),
                                           fallbackSerialFile, fault, k1)
         IN  IF s.err # Nil
             THEN EnsureResult(s.store, EmptyStr, EmptyStr, s.err, {})
             ELSE LET u == readOrCreateFallbackFile(s.store, fallbackUUIDFile,
                                                    fault, k2)
                      gs == IF s.generated THEN {fallbackSerialFile} ELSE {}
                  IN  IF u.err # Nil
                      THEN EnsureResult(u.store, EmptyStr, EmptyStr, u.err, gs)
                      ELSE EnsureResult(u.store, s.val, u.val, Nil,
                               gs \cup IF u.generated THEN {fallbackUUIDFile}
                                       ELSE {})

\* what can happen to a provisioning call in this store: a fault of a system
\* call it makes, a draw of the random source for a token it generates
NeedsToken(store, name) ==
    ~store.files[name].exists \/ TrimSpace(store.files[name].data) = EmptyStr

FaultsAt(store) ==
    {NoFault}
    \cup (IF store.dir.exists THEN {} ELSE {Fault("mkdir", "")})
    \cup {Fault(o, f) : o \in {"rand", "open", "write"},
                        f \in {g \in TokenFiles : NeedsToken(store, g)}}

DrawsAt(store, name) == IF NeedsToken(store, name) THEN RandomChoices ELSE {1}

\* ensureFallbackFiles(): the results the call can have
ensureFallbackFiles(store) ==
    {ensureFallbackFilesWith(store, fault, k1, k2) :
        fault \in FaultsAt(store),
        k1 \in DrawsAt(store, fallbackSerialFile),
        k2 \in DrawsAt(store, fallbackUUIDFile)}

(***************************************************************************)
(* The resolver.                                                           *)
(***************************************************************************)
WarnNoBIOS == "WARNING: machid - BIOS is not providing the system variables (serial/UUID) needed to generate hardware-based machine IDs."
WarnFallback == "WARNING: machid - Falling back to filesystem-based machine IDs stored in /etc/.machid"
WarnNotHardware == "WARNING: machid - These IDs will persist across reboots but are NOT tied to hardware."

FallbackWarnings == <<WarnNoBIOS, WarnFallback, WarnNotHardware>>

\* the outcome of getHardwareIdentifiers, with what the call did on the way:
\* the sources it consulted in order, the warnings it logged, the
\* provisioning call it made and the fallback store it left
Outcome(serial, uuid, usedFallback, err, reads, warns, ens, store) ==
    [called |-> TRUE, serial |-> serial, uuid |-> uuid,
     usedFallback |-> usedFallback, err |-> err, reads |-> reads,
     warns |-> warns, ens |-> ens, store |-> store]

\* (a variant that tries board_serial before chassis_serial)
SysfsSerialBoardFirst(hw) ==
    LET s1 == readSysfsFile(hw, sysfsPaths.productSerial)
        s2 == IF s1 = EmptyStr THEN readSysfsFile(hw, sysfsPaths.boardSerial)
              ELSE s1
        s3 == IF s2 = EmptyStr THEN readSysfsFile(hw, sysfsPaths.chassisSerial)
              ELSE s2
    IN  [val |-> s3,
         reads |-> <<sysfsPaths.productSerial>>
                   \o (IF s1 = EmptyStr THEN <<sysfsPaths.boardSerial>> ELSE << >>)
                   \o (IF s2 = EmptyStr THEN <<sysfsPaths.chassisSerial>> ELSE << >>)]

\* the serial after the three sysfs candidates, and the files read for it
SysfsSerial(hw) ==
    LET s1 == readSysfsFile(hw, sysfsPaths.productSerial)
        s2 == IF s1 = EmptyStr THEN readSysfsFile(hw, sysfsPaths.chassisSerial)
              ELSE s1
        s3 == IF s2 = EmptyStr THEN readSysfsFile(hw, sysfsPaths.boardSerial)
              ELSE s2
    IN  [val |-> s3,
         reads |-> <<sysfsPaths.productSerial>>
                   \o (IF s1 = EmptyStr THEN <<sysfsPaths.chassisSerial>> ELSE << >>)
                   \o (IF s2 = EmptyStr THEN <<sysfsPaths.boardSerial>> ELSE << >>)]

\* the serial after the three dmidecode keywords, the keywords asked, and
\* the error of the first lookup
DmidecodeSerial(hw) ==
    LET d1 == getDmidecodeValue(hw, "system-serial-number")
        s1 == d1.val
        s2 == IF s1 = EmptyStr
              THEN getDmidecodeValue(hw, "chassis-serial-number").val ELSE s1
        s3 == IF s2 = EmptyStr
              THEN getDmidecodeValue(hw, "baseboard-serial-number").val ELSE s2
    IN  [val |-> s3, err |-> d1.err,
         reads |-> <<"system-serial-number">>
                   \o (IF s1 = EmptyStr THEN <<"chassis-serial-number">> ELSE << >>)
                   \o (IF s2 = EmptyStr THEN <<"baseboard-serial-number">> ELSE << >>)]

\* getHardwareIdentifiers up to the dmidecode lookups: the serial and uuid
\* the hardware channels give and the sources consulted; done when the call
\* has already returned (both found in sysfs, or a dmidecode error other
\* than "not found")
HardwareTiers(hw) ==
    LET ss == SysfsSerial(hw)
        su == readSysfsFile(hw, sysfsPaths.productUUID)
        sysReads == ss.reads \o <<sysfsPaths.productUUID>>
    IN  IF ss.val # EmptyStr /\ su # EmptyStr
        THEN [serial |-> ss.val, uuid |-> su, reads |-> sysReads,
              done |-> TRUE, err |-> Nil]
        ELSE
        LET ds == IF ss.val = EmptyStr THEN DmidecodeSerial(hw)
                  ELSE [val |-> ss.val, err |-> Nil, reads |-> << >>]
        IN  IF ss.val = EmptyStr /\ ds.err # Nil /\ ds.err # ErrDmidecodeNotFound
            THEN [serial |-> EmptyStr, uuid |-> EmptyStr,
                  reads |-> sysReads \o <<"system-serial-number">>,
                  done |-> TRUE, err |-> ds.err]
            ELSE [serial |-> ds.val,
                  uuid |-> IF su = EmptyStr
                           THEN getDmidecodeValue(hw, "system-uuid").val ELSE su,
                  reads |-> sysReads \o ds.reads
                            \o (IF su = EmptyStr THEN <<"system-uuid">> ELSE << >>),
                  done |-> FALSE, err |-> Nil]

\* (a variant that completes a partial hardware result with fallback tokens)
FallbackTierFillsGaps(h, isStrict, store) ==
    IF h.serial # EmptyStr /\ h.uuid # EmptyStr
    THEN {Outcome(h.serial, h.uuid, FALSE, Nil, h.reads, << >>, NoEnsure, store)}
    ELSE IF isStrict
    THEN {IF h.serial # EmptyStr \/ h.uuid # EmptyStr
          THEN Outcome(h.serial, h.uuid, FALSE, Nil, h.reads, << >>,
                       NoEnsure, store)
          ELSE Outcome(EmptyStr, EmptyStr, FALSE, ErrStrictModeNoHardwareID,
                       h.reads, << >>, NoEnsure, store)}
    ELSE {IF e.err # Nil
          THEN Outcome(EmptyStr, EmptyStr, FALSE, e.err, h.reads,
                       FallbackWarnings, EnsureView(e), e.store)
          ELSE Outcome(IF h.serial # EmptyStr THEN h.serial ELSE e.serial,
                       IF h.uuid # EmptyStr THEN h.uuid ELSE e.uuid,
                       TRUE, Nil, h.reads,
                       FallbackWarnings, EnsureView(e), e.store) :
          e \in ensureFallbackFiles(store)}

\* (a variant that does not read the strict-mode flag)
FallbackTierIgnoresStrict(h, isStrict, store) ==
    IF h.serial # EmptyStr \/ h.uuid # EmptyStr
    THEN {Outcome(h.serial, h.uuid, FALSE, Nil, h.reads, << >>, NoEnsure, store)}
    ELSE {IF e.err # Nil
          THEN Outcome(EmptyStr, EmptyStr, FALSE, e.err, h.reads,
                       FallbackWarnings, EnsureView(e), e.store)
          ELSE Outcome(e.serial, e.uuid, TRUE, Nil, h.reads,
                       FallbackWarnings, EnsureView(e), e.store) :
          e \in ensureFallbackFiles(store)}

\* the rest of getHardwareIdentifiers, from "Check if we got at least one
\* identifier from hardware": the outcomes the call can have, h being what
\* the hardware channels gave and isStrict the strict-mode flag it reads
\* (a variant that warns only when the call creates a token file)
FallbackTierWarnsOnCreate(h, isStrict, store) ==
    IF h.serial # EmptyStr \/ h.uuid # EmptyStr
    THEN {Outcome(h.serial, h.uuid, FALSE, Nil, h.reads, << >>, NoEnsure, store)}
    ELSE IF isStrict
    THEN {Outcome(EmptyStr, EmptyStr, FALSE, ErrStrictModeNoHardwareID,
                  h.reads, << >>, NoEnsure, store)}
    ELSE {LET warns == IF e.generated = {} THEN << >> ELSE FallbackWarnings
          IN  IF e.err # Nil
              THEN Outcome(EmptyStr, EmptyStr, FALSE, e.err, h.reads,
                           warns, EnsureView(e), e.store)
              ELSE Outcome(e.serial, e.uuid, TRUE, Nil, h.reads,
                           warns, EnsureView(e), e.store) :
          e \in ensureFallbackFiles(store)}

\* (a variant that wants both values in strict mode)
FallbackTierStrictWantsBoth(h, isStrict, store) ==
    IF isStrict /\ (h.serial = EmptyStr \/ h.uuid = EmptyStr)
    THEN {Outcome(EmptyStr, EmptyStr, FALSE, ErrStrictModeNoHardwareID,
                  h.reads, << >>, NoEnsure, store)}
    ELSE IF h.serial # EmptyStr \/ h.uuid # EmptyStr
    THEN {Outcome(h.serial, h.uuid, FALSE, Nil, h.reads, << >>, NoEnsure, store)}
    ELSE {IF e.err # Nil
          THEN Outcome(EmptyStr, EmptyStr, FALSE, e.err, h.reads,
                       FallbackWarnings, EnsureView(e), e.store)
          ELSE Outcome(e.serial, e.uuid, TRUE, Nil, h.reads,
                       FallbackWarnings, EnsureView(e), e.store) :
          e \in ensureFallbackFiles(store)}

FallbackTier(h, isStrict, store) ==
    IF h.serial # EmptyStr \/ h.uuid # EmptyStr
    THEN {Outcome(h.serial, h.uuid, FALSE, Nil, h.reads, << >>, NoEnsure, store)}
    ELSE IF isStrict
    THEN {Outcome(EmptyStr, EmptyStr, FALSE, ErrStrictModeNoHardwareID,
                  h.reads, << >>, NoEnsure, store)}
    ELSE {IF e.err # Nil
          THEN Outcome(EmptyStr, EmptyStr, FALSE, e.err, h.reads,
                       FallbackWarnings, EnsureView(e), e.store)
          ELSE Outcome(e.serial, e.uuid, TRUE, Nil, h.reads,
                       FallbackWarnings, EnsureView(e), e.store) :
          e \in ensureFallbackFiles(store)}

\* getHardwareIdentifiers once the hardware channels have given h: return
\* what they gave if the call is done, else go on to the fallback tier
AfterHardwareTiers(h, isStrict, store) ==
    IF h.done
    THEN {Outcome(h.serial, h.uuid, FALSE, h.err, h.reads, << >>,
                  NoEnsure, store)}
    ELSE FallbackTier(h, isStrict, store)

\* getHardwareIdentifiers(): the outcomes the call can have
getHardwareIdentifiers(hw, isStrict, store) ==
    AfterHardwareTiers(HardwareTiers(hw), isStrict, store)

\* a call that never reached the resolver
NoOutcome(store) ==
    [called |-> FALSE, serial |-> EmptyStr, uuid |-> EmptyStr,
     usedFallback |-> FALSE, err |-> Nil, reads |-> << >>, warns |-> << >>,
     ens |-> NoEnsure, store |-> store]

\* the salts callers pass
Salts == {[i \in 1..n |-> "a"] : n \in 0..MaxSaltLen}

\* the wall clock: the instants it can show, in nanoseconds
Instants == 0..MaxTime
UnixNano(t) == t * 1000000001
Unix(t) == UnixNano(t) \div 1000000000

(***************************************************************************)
(* The digest engine.  hashData writes its parts to the hasher one after   *)
(* the other, so the hasher is fed the bytes of their concatenation, and   *)
(* returns the hex encoding of the 32-byte sum.  crypto/sha256 itself is   *)
(* outside the repository: it is modelled by a small mixing function with  *)
(* a sum of the same size (four running remainders of the byte string,     *)
(* spread over the 32 bytes).  Nothing is assumed about collisions: two    *)
(* byte strings get the same id exactly when the mixing function gives     *)
(* them the same sum.  (clearString empties hashData's own copies of the   *)
(* parts, which no caller can observe.)                                    *)
(***************************************************************************)
Sha256Size == 32

\* a byte that is not part of any UTF-8 sequence (0xff), and the three
\* bytes of U+FFFD, each as one element of a string
InvalidByte == "xFF"
ReplacementChar == "uFFFD"

\* []byte(d): the characters the model's strings are made of
ByteOf ==
    [c \in {HexDigits[i] : i \in 1..10} |->
        47 + CHOOSE i \in 1..10 : HexDigits[i] = c]
    @@ [c \in {HexDigits[i] : i \in 11..16} |->
        86 + CHOOSE i \in 11..16 : HexDigits[i] = c]
    @@ ("B" :> 66) @@ ("C" :> 67) @@ ("P" :> 80) @@ ("S" :> 83) @@ ("U" :> 85)
    @@ (" " :> 32) @@ ("." :> 46) @@ ("E" :> 69) @@ ("F" :> 70) @@ ("M" :> 77)
    @@ ("N" :> 78) @@ ("O" :> 79) @@ ("T" :> 84) @@ ("i" :> 105)
    @@ ("l" :> 108) @@ ("n" :> 110) @@ ("o" :> 111) @@ ("p" :> 112)
    @@ ("t" :> 116) @@ ("y" :> 121)

\* the hasher keeps four running remainders h[1..4] of the bytes written,
\* each with its own modulus and multiplier.  What a run of bytes does to
\* the hasher is a tuple a: a[k] is what the run adds to remainder k and
\* a[k + 4] the power of the multiplier it shifts remainder k by.
AbsorbByte(b) == <<b, b, b, b, 257, 263, 269, 271>>

\* a run followed by another
Join(l, r) ==
    <<(l[1] * r[5] + r[1]) % 32749, (l[2] * r[6] + r[2]) % 32719,
      (l[3] * r[7] + r[3]) % 32717, (l[4] * r[8] + r[4]) % 32713,
      (l[5] * r[5]) % 32749, (l[6] * r[6]) % 32719,
      (l[7] * r[7]) % 32717, (l[8] * r[8]) % 32713>>

\* one element of a string: its byte, 0xff for the invalid byte, and the
\* bytes ef bf bd of U+FFFD
AbsorbElement(c) ==
    IF c = InvalidByte THEN AbsorbByte(255)
    ELSE IF c = ReplacementChar
    THEN Join(Join(AbsorbByte(239), AbsorbByte(191)), AbsorbByte(189))
    ELSE AbsorbByte(ByteOf[c])

\* hasher.Write for the bytes lo..hi, split in halves (which gives the same
\* as byte by byte)
RECURSIVE Absorb(_, _, _)
Absorb(bytes, lo, hi) ==
    IF lo > hi THEN <<0, 0, 0, 0, 1, 1, 1, 1>>
    ELSE IF lo = hi THEN AbsorbElement(bytes[lo])
    ELSE CHOOSE a \in {Join(l, r) :
                          l \in {Absorb(bytes, lo, (lo + hi) \div 2)},
                          r \in {Absorb(bytes, (lo + hi) \div 2 + 1, hi)}} :
             TRUE

\* the sum of a hasher that started from <<1, 2, 3, 4>> and absorbed a
Squeeze(a) ==
    CHOOSE sum \in
        {[i \in 1..Sha256Size |->
             IF i <= 4 THEN h[i] % 256
             ELSE IF i <= 8 THEN h[i - 4] \div 128
             ELSE (h[((i - 1) % 4) + 1] * i + h[(i % 4) + 1] + i) % 256] :
         h \in {<<(1 * a[5] + a[1]) % 32749, (2 * a[6] + a[2]) % 32719,
                  (3 * a[7] + a[3]) % 32717, (4 * a[8] + a[4]) % 32713>>}} :
        TRUE

\* hasher.Sum(nil) after the bytes were written
Sum256(bytes) ==
    CHOOSE sum \in {Squeeze(a) : a \in {Absorb(bytes, 1, Len(bytes))}} : TRUE

\* the byte strings the generation API feeds the hasher: the serial, the
\* uuid and the salt, or the timestamp and the salt.  Their sums are worked
\* out once, in HexOfKnown.
KnownSalts == Salts \cup {<<"a", InvalidByte>>}
KnownInputs ==
    {s \o u \o salt :
        s \in {EmptyStr} \cup {SourceValue(n) : n \in SysfsFiles \cup DmiKeywords},
        u \in {EmptyStr} \cup {SourceValue(n) : n \in SysfsFiles \cup DmiKeywords},
        salt \in KnownSalts}
    \cup {RandomHexTable[k1] \o RandomHexTable[k2] \o salt :
             k1 \in RandomChoices, k2 \in RandomChoices, salt \in KnownSalts}
    \cup {Itoa(UnixNano(t)) \o salt : t \in Instants, salt \in KnownSalts}
HexOfKnown == [bytes \in KnownInputs |-> EncodeToString(Sum256(bytes))]

\* hex.EncodeToString(hasher.Sum(nil)) after the bytes were written
Sha256Hex(bytes) ==
    IF bytes \in KnownInputs THEN HexOfKnown[bytes]
    ELSE EncodeToString(Sum256(bytes))

hashData(data) == Sha256Hex(Concat(data))

(***************************************************************************)
(* The generation API, as functions of what a call reads.                  *)
(***************************************************************************)
\* (a variant that lets every user pass)
checkRootSkipped(euid) == Nil

\* checkRoot()
checkRoot(euid) == IF euid # 0 THEN ErrNotRoot ELSE Nil


\* (a variant that hashes the salt alone)
GenerateEMachIDNoClock(salt, t) ==
    IF salt = EmptyStr THEN [id |-> EmptyStr, err |-> ErrEmptySalt]
    ELSE [id |-> hashData(<<salt>>), err |-> Nil]

\* (a variant that accepts the empty salt)
GenerateEMachIDNoSaltCheck(salt, t) ==
    [id |-> hashData(<<Itoa(UnixNano(t)), salt>>), err |-> Nil]

\* GenerateEMachID(salt), the clock showing instant t
GenerateEMachIDResult(salt, t) ==
    IF salt = EmptyStr THEN [id |-> EmptyStr, err |-> ErrEmptySalt]
    ELSE [id |-> hashData(<<Itoa(UnixNano(t)), salt>>), err |-> Nil]

\* The operations that reach the resolver are given as the set of results
\* the call can have.

\* GenerateReMachIDWithInfo(salt)
GenerateReMachIDWithInfoResults(uid, machine, isStrict, fb, salt) ==
    IF checkRoot(uid) # Nil
    THEN {[id |-> EmptyStr, usedFallback |-> FALSE, err |-> checkRoot(uid),
           res |-> NoOutcome(fb)]}
    ELSE {IF r.err # Nil
          THEN [id |-> EmptyStr, usedFallback |-> FALSE, err |-> r.err,
                res |-> r]
          ELSE [id |-> IF salt # EmptyStr
                       THEN hashData(<<r.serial, r.uuid, salt>>)
                       ELSE hashData(<<r.serial, r.uuid>>),
                usedFallback |-> r.usedFallback, err |-> Nil, res |-> r] :
          r \in getHardwareIdentifiers(machine, isStrict, fb)}

\* (a variant that leaves the salt out of the hash)
GenerateReMachIDUnsalted(uid, machine, isStrict, fb, salt) ==
    IF checkRoot(uid) # Nil
    THEN {[id |-> EmptyStr, err |-> checkRoot(uid), res |-> NoOutcome(fb)]}
    ELSE {IF r.err # Nil
          THEN [id |-> EmptyStr, err |-> r.err, res |-> r]
          ELSE [id |-> hashData(<<r.serial, r.uuid>>), err |-> Nil, res |-> r] :
          r \in getHardwareIdentifiers(machine, isStrict, fb)}

\* GenerateReMachID(salt): the same, the fallback flag dropped
GenerateReMachIDResults(uid, machine, isStrict, fb, salt) ==
    IF checkRoot(uid) # Nil
    THEN {[id |-> EmptyStr, err |-> checkRoot(uid), res |-> NoOutcome(fb)]}
    ELSE {IF r.err # Nil
          THEN [id |-> EmptyStr, err |-> r.err, res |-> r]
          ELSE [id |-> IF salt # EmptyStr
                       THEN hashData(<<r.serial, r.uuid, salt>>)
                       ELSE hashData(<<r.serial, r.uuid>>),
                err |-> Nil, res |-> r] :
          r \in getHardwareIdentifiers(machine, isStrict, fb)}

\* GenerateBoth(salt): a nil info is ok = FALSE with empty fields
GenerateBothResults(uid, machine, isStrict, fb, salt, t) ==
    LET e == GenerateEMachIDResult(salt, t)
    IN  IF e.err # Nil
        THEN {[ok |-> FALSE, EMachID |-> EmptyStr, ReMachID |-> EmptyStr,
               UsedFallback |-> FALSE,
               err |-> Wrap("failed to generate eMachID", e.err),
               res |-> NoOutcome(fb)]}
        ELSE {IF r.err # Nil
              THEN [ok |-> FALSE, EMachID |-> EmptyStr, ReMachID |-> EmptyStr,
                    UsedFallback |-> FALSE,
                    err |-> Wrap("failed to generate reMachID", r.err),
                    res |-> r.res]
              ELSE [ok |-> TRUE, EMachID |-> e.id, ReMachID |-> r.id,
                    UsedFallback |-> r.usedFallback, err |-> Nil,
                    res |-> r.res] :
              r \in GenerateReMachIDWithInfoResults(uid, machine, isStrict,
                                                    fb, salt)}

\* (a variant that reports success and leaves the file in place)
RemoveFileKeeps(store, name) == store

\* os.Remove of a token file
RemoveFile(store, name) == [store EXCEPT !.files[name] = NoFile]

\* (a variant that removes the directory with whatever it holds)
RemoveDirAll(store) ==
    [store EXCEPT !.dir = [exists |-> FALSE, mode |-> 0, foreign |-> FALSE]]

\* os.Remove(fallbackDir): succeeds only on an empty directory
RemoveDir(store) ==
    IF /\ store.dir.exists /\ ~store.dir.foreign
       /\ \A f \in TokenFiles : ~store.files[f].exists
    THEN [store EXCEPT !.dir = NoDir]
    ELSE store

\* ClearFallbackFiles(), the operating system behaving as fault says
ClearFallbackFilesWith(uid, store, fault) ==
    IF checkRoot(uid) # Nil THEN [store |-> store, err |-> checkRoot(uid)]
    ELSE IF store.files[fallbackSerialFile].exists
            /\ fault = Fault("remove", fallbackSerialFile)
    THEN [store |-> store,
          err |-> Wrap("failed to remove fallback serial file", ErrOS)]
    ELSE LET s1 == RemoveFile(store, fallbackSerialFile)
         IN  IF s1.files[fallbackUUIDFile].exists
                /\ fault = Fault("remove", fallbackUUIDFile)
             THEN [store |-> s1,
                   err |-> Wrap("failed to remove fallback UUID file", ErrOS)]
             ELSE [store |-> RemoveDir(RemoveFile(s1, fallbackUUIDFile)),
                   err |-> Nil]

\* ClearFallbackFiles(): the results the call can have
ClearFallbackFilesResults(uid, store) ==
    {ClearFallbackFilesWith(uid, store, fault) :
        fault \in {NoFault} \cup
            {Fault("remove", f) : f \in {g \in TokenFiles : store.files[g].exists}}}

\* os.Stat of a token file: the file must exist and the caller must be
\* allowed to search fallbackDir, which root always is and another user is
\* when the directory's mode grants search to others
Stat(uid, store, name) ==
    IF ~store.files[name].exists THEN ErrNotExist
    ELSE IF uid # 0 /\ store.dir.mode % 2 = 0 THEN ErrPermission
    ELSE Nil

\* HasFallbackFiles()
HasFallbackFilesResult(uid, store) ==
    /\ Stat(uid, store, fallbackSerialFile) = Nil
    /\ Stat(uid, store, fallbackUUIDFile) = Nil

(***************************************************************************)
(* The identifier cache: the record, its JSON document, the cache file.    *)
(***************************************************************************)
\* type CachedMachineIDs
CachedMachineIDs(re, e, salt, count, created) ==
    [ReMachID |-> re, EMachID |-> e, Salt |-> salt, ActionCount |-> count,
     CreatedAt |-> created]

\* the zero value of the struct
ZeroCache == CachedMachineIDs(EmptyStr, EmptyStr, EmptyStr, 0, 0)

\* strconv-style reading of the decimal text Itoa writes
RECURSIVE Atoi(_)
Atoi(s) ==
    IF s = << >> THEN 0
    ELSE Atoi(SubSeq(s, 1, Len(s) - 1)) * 10
         + (CHOOSE d \in 0..9 : DecDigits[d + 1] = s[Len(s)])

\* encoding/json writes a string coerced to valid UTF-8: every invalid byte
\* becomes U+FFFD
RECURSIVE ToValidUTF8(_)
ToValidUTF8(str) ==
    IF str = << >> THEN << >>
    ELSE <<IF Head(str) = InvalidByte THEN ReplacementChar ELSE Head(str)>>
         \o ToValidUTF8(Tail(str))

\* json.MarshalIndent(cache, "", "  "): the document as its members in order,
\* each a key and the text of its value; the omitempty fields are left out
\* when they hold an empty string or zero
MarshalIndent(c) ==
    <<<<"remach_id", ToValidUTF8(c.ReMachID)>>>>
    \o (IF c.EMachID # EmptyStr THEN <<<<"emach_id", ToValidUTF8(c.EMachID)>>>>
        ELSE << >>)
    \o (IF c.Salt # EmptyStr THEN <<<<"salt", ToValidUTF8(c.Salt)>>>> ELSE << >>)
    \o <<<<"action_count", Itoa(c.ActionCount)>>>>
    \o (IF c.CreatedAt # 0 THEN <<<<"created_at", Itoa(c.CreatedAt)>>>> ELSE << >>)

\* the text of member key in a document, or default when it has none
Member(data, key, default) ==
    IF \E i \in 1..Len(data) : data[i][1] = key
    THEN data[CHOOSE i \in 1..Len(data) : data[i][1] = key][2]
    ELSE default

ErrJSON == <<"unexpected end of JSON input">>
ErrSyntax == <<"invalid character after top-level value">>

\* What a file holds when a document was written over the beginning of a
\* longer content: the document, then the n bytes that are left of the old
\* content.  They are kept as one last element after the members.
TrailingKey == "bytes left over"
Trailing(n) == <<TrailingKey, n>>
HasTrailing(data) == data # << >> /\ data[Len(data)][1] = TrailingKey

\* the length in bytes of a key between its quotes
KeyBytes ==
    [remach_id |-> 9, emach_id |-> 8, salt |-> 4, action_count |-> 12,
     created_at |-> 10]

\* the length in bytes of a value as MarshalIndent writes it: a number as
\* its digits, a string between quotes, U+FFFD taking three bytes
ValueBytes(key, text) ==
    IF key \in {"action_count", "created_at"} THEN Len(text)
    ELSE 2 + Len(text)
         + 2 * Cardinality({i \in 1..Len(text) : text[i] = ReplacementChar})

\* the length in bytes of a file content: "{", a line per member (two
\* spaces, the key, a colon and a space, the value, a comma except on the
\* last) and "}", then the bytes left over
RECURSIVE MemberBytes(_)
MemberBytes(data) ==
    IF data = << >> THEN 0
    ELSE IF Head(data)[1] = TrailingKey THEN Head(data)[2]
    ELSE 8 + KeyBytes[Head(data)[1]] + ValueBytes(Head(data)[1], Head(data)[2])
         + MemberBytes(Tail(data))
Size(data) == IF data = << >> THEN 0 ELSE 2 + MemberBytes(data)

\* file.Write(data) at offset 0 of a file that holds old: the bytes of old
\* beyond the end of data stay where they are
WriteAtStart(old, data) ==
    IF Size(old) > Size(data)
    THEN data \o <<Trailing(Size(old) - Size(data))>>
    ELSE data

\* json.Unmarshal(data, &cache): an empty file is not a document, neither
\* is a document followed by other bytes; a field the document lacks keeps
\* its zero value
Unmarshal(data) ==
    IF data = << >>
    THEN [cache |-> ZeroCache, err |-> ErrJSON]
    ELSE IF HasTrailing(data)
    THEN [cache |-> ZeroCache, err |-> ErrSyntax]
    ELSE [cache |-> CachedMachineIDs(Member(data, "remach_id", EmptyStr),
                                     Member(data, "emach_id", EmptyStr),
                                     Member(data, "salt", EmptyStr),
                                     Atoi(Member(data, "action_count", <<"0">>)),
                                     Atoi(Member(data, "created_at", <<"0">>))),
          err |-> Nil]

\* the cache directory and the cache file in it
cacheFile == "cache.json"
NoCache == [dir |-> FALSE, exists |-> FALSE, data |-> << >>]

\* Paths are sequences of components; filepath.Join puts one after another.
cacheSubDir == <<".config", "machid">>
HomeRoot == <<"home">>
TmpDir == <<"tmp">>
FilepathJoin(dir, sub) == dir \o sub

\* an environment variable that is not set, or set to the empty string
Unset == ""

\* The session of the invoking user: the name sudo passes on as SUDO_USER
\* and the HOME of the user's shell (<< >> when HOME is not set).
Login(user, home) == [user |-> user, home |-> home]

\* os.Getenv("SUDO_USER"): set in a process elevated through sudo
SudoUser(uid, lg) == IF uid = 0 THEN lg.user ELSE Unset

\* os.UserHomeDir(): $HOME, an error when it is not set
UserHomeDir(lg) ==
    IF lg.home = << >> THEN [home |-> << >>, err |-> ErrOS]
    ELSE [home |-> lg.home, err |-> Nil]

\* getCacheDir() in a process with user id uid started from the session lg,
\* dirs being the directories that exist
getCacheDir(uid, lg, dirs) ==
    IF SudoUser(uid, lg) # Unset
    THEN IF FilepathJoin(HomeRoot, <<SudoUser(uid, lg)>>) \notin dirs
         THEN FilepathJoin(TmpDir, cacheSubDir)
         ELSE FilepathJoin(FilepathJoin(HomeRoot, <<SudoUser(uid, lg)>>),
                           cacheSubDir)
    ELSE IF UserHomeDir(lg).err # Nil
    THEN FilepathJoin(TmpDir, cacheSubDir)
    ELSE FilepathJoin(UserHomeDir(lg).home, cacheSubDir)

\* LoadCachedIDs(): a nil record is err # Nil
LoadCachedIDsResult(file) ==
    IF ~file.exists THEN [cache |-> ZeroCache, err |-> ErrNotExist]
    ELSE Unmarshal(file.data)

\* what can go wrong in SaveCachedIDs: MkdirAll fails, WriteFile fails to
\* open the file, WriteFile fails after truncating it
CacheFaults ==
    {NoFault, Fault("mkdir", cacheFile), Fault("open", cacheFile),
     Fault("write", cacheFile)}

\* SaveCachedIDs(cache), the operating system behaving as fault says (the
\* change of ownership at the end alters neither content nor result)
SaveCachedIDsWith(file, c, fault) ==
    IF fault = Fault("mkdir", cacheFile) /\ ~file.dir
    THEN [file |-> file, err |-> ErrOS]
    ELSE IF fault = Fault("open", cacheFile)
    THEN [file |-> [file EXCEPT !.dir = TRUE], err |-> ErrOS]
    ELSE IF fault = Fault("write", cacheFile)
    THEN [file |-> [dir |-> TRUE, exists |-> TRUE, data |-> << >>],
          err |-> ErrOS]
    ELSE [file |-> [dir |-> TRUE, exists |-> TRUE, data |-> MarshalIndent(c)],
          err |-> Nil]

\* ClearCache(): a missing file is no error
ClearCacheWith(file, fault) ==
    IF file.exists /\ fault = Fault("remove", cacheFile)
    THEN [file |-> file, err |-> ErrOS]
    ELSE [file |-> [file EXCEPT !.exists = FALSE, !.data = << >>], err |-> Nil]

WarnSaltMismatch == "WARNING: machid - Salt mismatch in cache, regenerating reMachID"
WarnCacheReMachID == "WARNING: machid - Failed to cache reMachID"
WarnCacheEMachID == "WARNING: machid - Failed to cache eMachID"
LogBothCached == "Using cached machine IDs (no sudo required)"
LogReCached == "Using cached reMachID, generated new eMachID"
LogGenerated == "Generated and cached machine IDs"

\* (a variant that takes every cached salt for a match)
SaltMatchesAlways(cacheSalt, salt) == TRUE

\* (a variant that takes only the request's own salt for a match)
SaltMatchesExactly(cacheSalt, salt) == cacheSalt = salt

\* the salt test of GetOrGenerateReMachID
SaltMatches(cacheSalt, salt) == cacheSalt = EmptyStr \/ cacheSalt = salt

\* the result of a cache operation: the id (or ids) returned, fromCache,
\* the error, the warnings logged, the resolver's outcome, the cache file
\* left behind, whether SaveCachedIDs was called and what it returned
CacheResult(id, fromCache, err, warns, res, file, saved) ==
    [id |-> id, fromCache |-> fromCache, err |-> err, warns |-> warns,
     res |-> res, file |-> file, saved |-> saved, saveErr |-> Nil]

\* the result of a call whose SaveCachedIDs returned err
AfterSave(r, err) == [r EXCEPT !.saveErr = err]

\* GetOrGenerateReMachID(salt), the clock showing instant t
\* (a variant that drops a record of another salt before it regenerates)
GetOrGenerateReMachIDInvalidates(uid, machine, isStrict, fb, file, salt, t) ==
    LET l == LoadCachedIDsResult(file)
        found == l.err = Nil /\ l.cache.ReMachID # EmptyStr
        mismatch == IF found THEN <<WarnSaltMismatch>> ELSE << >>
        newCache(id) ==
            IF l.err = Nil /\ l.cache.EMachID # EmptyStr
            THEN CachedMachineIDs(id, l.cache.EMachID, salt,
                                  l.cache.ActionCount, Unix(t))
            ELSE CachedMachineIDs(id, EmptyStr, salt, 0, Unix(t))
    IN  IF found /\ SaltMatches(l.cache.Salt, salt)
        THEN {CacheResult(l.cache.ReMachID, TRUE, Nil, << >>, NoOutcome(fb),
                          file, FALSE)}
        ELSE UNION {
            IF g.err # Nil
            THEN {CacheResult(EmptyStr, FALSE, g.err, mismatch \o g.res.warns,
                              g.res, IF found THEN NoCache ELSE file, FALSE)}
            ELSE {LET sv == SaveCachedIDsWith(file, newCache(g.id), fault)
                  IN  AfterSave(CacheResult(g.id, FALSE, Nil,
                                  mismatch \o g.res.warns
                                  \o (IF sv.err # Nil THEN <<WarnCacheReMachID>>
                                      ELSE << >>),
                                  g.res, sv.file, TRUE), sv.err) :
                  fault \in CacheFaults} :
            g \in GenerateReMachIDResults(uid, machine, isStrict, fb, salt)}

GetOrGenerateReMachIDResults(uid, machine, isStrict, fb, file, salt, t) ==
    LET l == LoadCachedIDsResult(file)
        found == l.err = Nil /\ l.cache.ReMachID # EmptyStr
        mismatch == IF found THEN <<WarnSaltMismatch>> ELSE << >>
        newCache(id) ==
            IF l.err = Nil /\ l.cache.EMachID # EmptyStr
            THEN CachedMachineIDs(id, l.cache.EMachID, salt,
                                  l.cache.ActionCount, Unix(t))
            ELSE CachedMachineIDs(id, EmptyStr, salt, 0, Unix(t))
    IN  IF found /\ SaltMatches(l.cache.Salt, salt)
        THEN {CacheResult(l.cache.ReMachID, TRUE, Nil, << >>, NoOutcome(fb),
                          file, FALSE)}
        ELSE UNION {
            IF g.err # Nil
            THEN {CacheResult(EmptyStr, FALSE, g.err, mismatch \o g.res.warns,
                              g.res, file, FALSE)}
            ELSE {LET sv == SaveCachedIDsWith(file, newCache(g.id), fault)
                  IN  AfterSave(CacheResult(g.id, FALSE, Nil,
                                  mismatch \o g.res.warns
                                  \o (IF sv.err # Nil THEN <<WarnCacheReMachID>>
                                      ELSE << >>),
                                  g.res, sv.file, TRUE), sv.err) :
                  fault \in CacheFaults} :
            g \in GenerateReMachIDResults(uid, machine, isStrict, fb, salt)}

\* GetOrGenerateEMachID(salt), the clock showing instant t
\* (a variant that serves the cached ephemeral id only to the salt of the
\* record, as GetOrGenerateReMachID does)
GetOrGenerateEMachIDSalted(fb, file, salt, t) ==
    LET l == LoadCachedIDsResult(file)
        e == GenerateEMachIDResult(salt, t)
        newCache == IF l.err = Nil THEN [l.cache EXCEPT !.EMachID = e.id]
                    ELSE CachedMachineIDs(EmptyStr, e.id, salt, 0, Unix(t))
    IN  IF l.err = Nil /\ l.cache.EMachID # EmptyStr
           /\ SaltMatches(l.cache.Salt, salt)
        THEN {CacheResult(l.cache.EMachID, TRUE, Nil, << >>, NoOutcome(fb),
                          file, FALSE)}
        ELSE IF e.err # Nil
        THEN {CacheResult(EmptyStr, FALSE, e.err, << >>, NoOutcome(fb),
                          file, FALSE)}
        ELSE {LET sv == SaveCachedIDsWith(file, newCache, fault)
              IN  AfterSave(CacheResult(e.id, FALSE, Nil,
                              IF sv.err # Nil THEN <<WarnCacheEMachID>>
                              ELSE << >>,
                              NoOutcome(fb), sv.file, TRUE), sv.err) :
              fault \in CacheFaults}

GetOrGenerateEMachIDResults(fb, file, salt, t) ==
    LET l == LoadCachedIDsResult(file)
        e == GenerateEMachIDResult(salt, t)
        newCache == IF l.err = Nil THEN [l.cache EXCEPT !.EMachID = e.id]
                    ELSE CachedMachineIDs(EmptyStr, e.id, salt, 0, Unix(t))
    IN  IF l.err = Nil /\ l.cache.EMachID # EmptyStr
        THEN {CacheResult(l.cache.EMachID, TRUE, Nil, << >>, NoOutcome(fb),
                          file, FALSE)}
        ELSE IF e.err # Nil
        THEN {CacheResult(EmptyStr, FALSE, e.err, << >>, NoOutcome(fb),
                          file, FALSE)}
        ELSE {LET sv == SaveCachedIDsWith(file, newCache, fault)
              IN  AfterSave(CacheResult(e.id, FALSE, Nil,
                              IF sv.err # Nil THEN <<WarnCacheEMachID>>
                              ELSE << >>,
                              NoOutcome(fb), sv.file, TRUE), sv.err) :
              fault \in CacheFaults}

\* GetOrGenerateBoth(salt): a nil result is ok = FALSE with a zero info
GetOrGenerateBothResults(uid, machine, isStrict, fb, file, salt, t) ==
    UNION {
        IF r.err # Nil
        THEN {[ok |-> FALSE, info |-> ZeroCache,
               err |-> Wrap("failed to get reMachID", r.err),
               warns |-> r.warns, res |-> r.res, file |-> r.file,
               saved |-> r.saved, saveErr |-> r.saveErr]}
        ELSE {IF e.err # Nil
              THEN [ok |-> FALSE, info |-> ZeroCache,
                    err |-> Wrap("failed to get eMachID", e.err),
                    warns |-> r.warns \o e.warns, res |-> r.res,
                    file |-> e.file, saved |-> r.saved \/ e.saved,
                    saveErr |-> r.saveErr]
              ELSE LET l == LoadCachedIDsResult(e.file)
                       actionCount == IF l.err = Nil THEN l.cache.ActionCount
                                      ELSE 0
                   IN  [ok |-> TRUE,
                        info |-> CachedMachineIDs(r.id, e.id, salt,
                                                  actionCount, 0),
                        err |-> Nil,
                        warns |-> r.warns \o e.warns
                                  \o <<IF r.fromCache /\ e.fromCache
                                       THEN LogBothCached
                                       ELSE IF r.fromCache THEN LogReCached
                                       ELSE LogGenerated>>,
                        res |-> r.res, file |-> e.file,
                        saved |-> r.saved \/ e.saved,
                        saveErr |-> IF r.saveErr # Nil THEN r.saveErr
                                    ELSE e.saveErr] :
              e \in GetOrGenerateEMachIDResults(r.res.store, r.file, salt, t)} :
        r \in GetOrGenerateReMachIDResults(uid, machine, isStrict, fb, file,
                                           salt, t)}

\* RotateEMachID(salt), the clock showing instant t
\* (a variant that only logs a failed save, as the GetOrGenerate calls do)
RotateEMachIDSaveNonFatal(fb, file, salt, t) ==
    LET e == GenerateEMachIDResult(salt, t)
        l == LoadCachedIDsResult(file)
        c == IF l.err = Nil THEN l.cache
             ELSE CachedMachineIDs(EmptyStr, EmptyStr, salt, 0, 0)
        rotated == [c EXCEPT !.EMachID = e.id, !.ActionCount = 0]
    IN  IF e.err # Nil
        THEN {CacheResult(EmptyStr, FALSE, e.err, << >>, NoOutcome(fb), file,
                          FALSE)}
        ELSE {LET sv == SaveCachedIDsWith(file, rotated, fault)
              IN  AfterSave(CacheResult(e.id, FALSE, Nil,
                              IF sv.err # Nil THEN <<WarnCacheEMachID>>
                              ELSE << >>,
                              NoOutcome(fb), sv.file, TRUE), sv.err) :
              fault \in CacheFaults}

\* (a variant that leaves the action counter as it was)
RotateEMachIDKeepsCount(fb, file, salt, t) ==
    LET e == GenerateEMachIDResult(salt, t)
        l == LoadCachedIDsResult(file)
        c == IF l.err = Nil THEN l.cache
             ELSE CachedMachineIDs(EmptyStr, EmptyStr, salt, 0, 0)
        rotated == [c EXCEPT !.EMachID = e.id]
    IN  IF e.err # Nil
        THEN {CacheResult(EmptyStr, FALSE, e.err, << >>, NoOutcome(fb), file,
                          FALSE)}
        ELSE {LET sv == SaveCachedIDsWith(file, rotated, fault)
              IN  IF sv.err # Nil
                  THEN AfterSave(CacheResult(EmptyStr, FALSE,
                                   Wrap("failed to save rotated eMachID", sv.err),
                                   << >>, NoOutcome(fb), sv.file, TRUE), sv.err)
                  ELSE CacheResult(e.id, FALSE, Nil, << >>, NoOutcome(fb),
                                   sv.file, TRUE) :
              fault \in CacheFaults}

\* (a variant that returns the new id together with the save error)
RotateEMachIDKeepsId(fb, file, salt, t) ==
    LET e == GenerateEMachIDResult(salt, t)
        l == LoadCachedIDsResult(file)
        c == IF l.err = Nil THEN l.cache
             ELSE CachedMachineIDs(EmptyStr, EmptyStr, salt, 0, 0)
        rotated == [c EXCEPT !.EMachID = e.id, !.ActionCount = 0]
    IN  IF e.err # Nil
        THEN {CacheResult(EmptyStr, FALSE, e.err, << >>, NoOutcome(fb), file,
                          FALSE)}
        ELSE {LET sv == SaveCachedIDsWith(file, rotated, fault)
              IN  IF sv.err # Nil
                  THEN AfterSave(CacheResult(e.id, FALSE,
                                   Wrap("failed to save rotated eMachID", sv.err),
                                   << >>, NoOutcome(fb), sv.file, TRUE), sv.err)
                  ELSE CacheResult(e.id, FALSE, Nil, << >>, NoOutcome(fb),
                                   sv.file, TRUE) :
              fault \in CacheFaults}

RotateEMachIDResults(fb, file, salt, t) ==
    LET e == GenerateEMachIDResult(salt, t)
        l == LoadCachedIDsResult(file)
        c == IF l.err = Nil THEN l.cache
             ELSE CachedMachineIDs(EmptyStr, EmptyStr, salt, 0, 0)
        rotated == [c EXCEPT !.EMachID = e.id, !.ActionCount = 0]
    IN  IF e.err # Nil
        THEN {CacheResult(EmptyStr, FALSE, e.err, << >>, NoOutcome(fb), file,
                          FALSE)}
        ELSE {LET sv == SaveCachedIDsWith(file, rotated, fault)
              IN  IF sv.err # Nil
                  THEN AfterSave(CacheResult(EmptyStr, FALSE,
                                   Wrap("failed to save rotated eMachID", sv.err),
                                   << >>, NoOutcome(fb), sv.file, TRUE), sv.err)
                  ELSE CacheResult(e.id, FALSE, Nil, << >>, NoOutcome(fb),
                                   sv.file, TRUE) :
              fault \in CacheFaults}

\* (a variant that writes a record holding the new counter alone)
IncrementActionCountOnly(file) ==
    LET l == LoadCachedIDsResult(file)
        c == [ZeroCache EXCEPT !.ActionCount = l.cache.ActionCount + 1]
    IN  IF l.err # Nil
        THEN {[count |-> 0, err |-> l.err, file |-> file, saved |-> FALSE,
               saveErr |-> Nil]}
        ELSE {LET sv == SaveCachedIDsWith(file, c, fault)
              IN  IF sv.err # Nil
                  THEN [count |-> 0, err |-> sv.err, file |-> sv.file,
                        saved |-> TRUE, saveErr |-> sv.err]
                  ELSE [count |-> c.ActionCount, err |-> Nil, file |-> sv.file,
                        saved |-> TRUE, saveErr |-> Nil] :
              fault \in CacheFaults}

\* IncrementActionCount()
IncrementActionCountResults(file) ==
    LET l == LoadCachedIDsResult(file)
        c == [l.cache EXCEPT !.ActionCount = @ + 1]
    IN  IF l.err # Nil
        THEN {[count |-> 0, err |-> l.err, file |-> file, saved |-> FALSE,
               saveErr |-> Nil]}
        ELSE {LET sv == SaveCachedIDsWith(file, c, fault)
              IN  IF sv.err # Nil
                  THEN [count |-> 0, err |-> sv.err, file |-> sv.file,
                        saved |-> TRUE, saveErr |-> sv.err]
                  ELSE [count |-> c.ActionCount, err |-> Nil, file |-> sv.file,
                        saved |-> TRUE, saveErr |-> Nil] :
              fault \in CacheFaults}

(***************************************************************************)
(* The configuration locks.  strictModeMu and loggerFuncMu are             *)
(* sync.RWMutex values.  A writer first takes the mutex that serialises    *)
(* writers and announces itself, then waits until the readers that held    *)
(* the lock at that moment have left; a reader that arrives while a writer *)
(* is announced blocks until that writer unlocks, which admits every       *)
(* blocked reader at once.                                                 *)
(***************************************************************************)
NoProc == "none"
Mutexes == {"strictModeMu", "loggerFuncMu"}

\* a sync.RWMutex: the writer that is announced, whether it holds the lock
\* yet, the readers that hold it and the readers that are blocked
NewRWMutex == [writer |-> NoProc, locked |-> FALSE, readers |-> {}, blocked |-> {}]
NoLocks == [mu \in Mutexes |-> NewRWMutex]

\* rw.Lock(), first half: p takes the writers' mutex and announces itself
LockAnnounce(rw, p) == [rw EXCEPT !.writer = p]
CanAnnounce(rw) == rw.writer = NoProc
\* rw.Lock(), second half: the readers have left
LockAcquire(rw, p) == [rw EXCEPT !.locked = TRUE]
CanAcquire(rw, p) == rw.writer = p /\ ~rw.locked /\ rw.readers = {}

\* (a variant of Unlock that leaves the lock as it is)
UnlockNever(rw, p) == rw

\* rw.Unlock(): the blocked readers are admitted, the writers' mutex is
\* released
Unlock(rw, p) ==
    [rw EXCEPT !.writer = NoProc, !.locked = FALSE, !.readers = rw.blocked,
               !.blocked = {}]

\* rw.RLock(): p holds the lock at once unless a writer is announced
RLock(rw, p) ==
    IF rw.writer # NoProc THEN [rw EXCEPT !.blocked = @ \cup {p}]
    ELSE [rw EXCEPT !.readers = @ \cup {p}]

\* (a variant of RUnlock that leaves the lock as it is)
RUnlockNever(rw, p) == rw

\* rw.RUnlock()
RUnlock(rw, p) == [rw EXCEPT !.readers = @ \ {p}]

\* p holds rw, for reading or for writing
Holds(rw, p) == p \in rw.readers \/ (rw.writer = p /\ rw.locked)

(***************************************************************************)
(* State.                                                                  *)
(***************************************************************************)
VARIABLES
    euid,        \* the effective user id of the running process
    hw,          \* the machine's sysfs files and dmidecode
    strictMode,  \* the process-wide strict-mode flag
    loggerFunc,  \* the process-wide warning sink
    store,       \* the fallback directory and its token files
    cache,       \* the cache file of the running process
    out,         \* what the last call returned and did
    hist,        \* what has been provisioned since the last clear
    procs,       \* the provisioning calls in progress, one per process
    login,       \* the invoking user: name and HOME of the session
    disk,        \* the home directories that exist, the other cache files
    locks        \* strictModeMu and loggerFuncMu

vars ==
    <<euid, hw, strictMode, loggerFunc, store, cache, out, hist, procs, login,
      disk, locks>>

\* The sessions of the model: a user whose home is /home/<name>, a service
\* account whose home is elsewhere, and an account without a home
\* directory, whose HOME is not set.  The home directory of the session is
\* the one home directory that exists on its machine.
DefaultLogin == Login("alice", <<"home", "alice">>)
Logins ==
    {DefaultLogin, Login("svc", <<"var", "lib", "svc">>), Login("nobody", << >>)}
HomeDirs(lg) == IF lg.home = << >> THEN {} ELSE {lg.home}

\* the directories a cache file can be in
CacheDirs ==
    {FilepathJoin(h, cacheSubDir) :
        h \in {TmpDir} \cup {FilepathJoin(HomeRoot, <<lg.user>>) : lg \in Logins}
               \cup {lg.home : lg \in Logins}}

\* disk.files[d] is the cache file of directory d, except for the cache
\* directory of the running process, whose file is the variable cache
DiskOf(lg) == [dirs |-> HomeDirs(lg), files |-> [d \in CacheDirs |-> NoCache]]
DefaultDisk == DiskOf(DefaultLogin)

\* the processes that provision concurrently
Procs == {"p1", "p2"}

\* a process's provisioning call: where it stands, the token file it is
\* working on, the value it generated, and the tokens and error it returns
Idle ==
    [pc |-> "idle", cur |-> fallbackSerialFile, val |-> EmptyStr,
     serial |-> EmptyStr, uuid |-> EmptyStr, err |-> Nil, generated |-> {}]


Root == 0
User == 1000
Euids == {Root, User}

\* the warning sinks: the default (stdout), the no-op SetLogger(nil)
\* installs, and two caller-supplied functions
Stdout == "stdout"
Noop == "noop"
NilLogger == "nil"
CustomSinks == {"f", "g"}

\* the machines of the main specification
CoreMachines ==
    {Machine(AllSysfs("value"), TRUE, AllDmi("value")),
     Machine([AllSysfs("notspec") EXCEPT ![sysfsPaths.boardSerial] = "value"],
             FALSE, AllDmi("absent")),
     Machine(AllSysfs("absent"), FALSE, AllDmi("absent")),
     Machine(AllSysfs("oem"), TRUE, AllDmi("none"))}

\* the fallback objects a call changed
Changed(before, after) ==
    {f \in TokenFiles : before.files[f] # after.files[f]}
    \cup (IF before.dir # after.dir THEN {"dir"} ELSE {})

\* the resolver's outcome without the store it left
OutcomeView(r) == [f \in DOMAIN r \ {"store"} |-> r[f]]

\* logWarning(msg): the message is passed to the function loggerFunc holds
\* at that moment; a delivery is the sink and the message
logWarning(sink, msg) == <<sink, msg>>

\* (a variant that passes every message to the default sink)
DeliveredToStdout(sink, warns) ==
    [i \in 1..Len(warns) |-> <<"stdout", warns[i]>>]

\* the deliveries of a call that emits warns while loggerFunc holds sink
Delivered(sink, warns) ==
    [i \in 1..Len(warns) |-> logWarning(sink, warns[i])]

\* the record of a call: the operation and its argument, the process
\* state it ran in, what it returned (id, the second id of GenerateBoth,
\* the usedFallback / fromCache / boolean result, the error), the warnings
\* it logged and the sink that received them, the resolver's outcome, the
\* fallback objects it changed, and whether the call before it was a
\* successful call of the same operation with the same argument
CallRecord(op, salt, id, eid, flag, err, warns, res, changed) ==
    [op |-> op, salt |-> salt, euid |-> euid, strict |-> strictMode,
     sink |-> loggerFunc, id |-> id, eid |-> eid, flag |-> flag, err |-> err,
     warns |-> warns, res |-> OutcomeView(res), changed |-> changed,
     again |-> out.op = op /\ out.salt = salt /\ out.err = Nil,
     saved |-> FALSE, saveErr |-> Nil, info |-> ZeroCache, nano |-> -1,
     delivered |-> Delivered(loggerFunc, warns)]

\* the record of a GenerateEMachID call: also the time.Now().UnixNano() it
\* read, if it got that far (-1: the call read no clock)
ClockCallRecord(salt, r, t) ==
    [CallRecord("GenerateEMachID", salt, r.id, EmptyStr, FALSE, r.err, << >>,
                NoOutcome(store), {})
     EXCEPT !.nano = IF r.err = Nil THEN UnixNano(t) ELSE -1]

\* the record of a call of the caching API: also whether it called
\* SaveCachedIDs, and the cache record it returned or passed
CacheCallRecord(op, salt, r, info) ==
    [CallRecord(op, salt, r.id, EmptyStr, r.fromCache, r.err, r.warns, r.res,
                Changed(store, r.res.store))
     EXCEPT !.saved = r.saved, !.saveErr = r.saveErr, !.info = info]

NoCall ==
    [op |-> "none", salt |-> EmptyStr, euid |-> Root, strict |-> FALSE,
     sink |-> Stdout, id |-> EmptyStr, eid |-> EmptyStr, flag |-> FALSE,
     err |-> Nil, warns |-> << >>, res |-> OutcomeView(NoOutcome(EmptyStore)),
     changed |-> {}, again |-> FALSE, saved |-> FALSE, saveErr |-> Nil,
     info |-> ZeroCache, nano |-> -1, delivered |-> << >>]

\* hist.prov: the tokens of the first successful provisioning since
\* ClearFallbackFiles last ran as root, and whether that provisioning was
\* the first provisioning call after a successful clear; hist.cleared:
\* ClearFallbackFiles has succeeded and no provisioning call has run since
NoProv ==
    [set |-> FALSE, serial |-> EmptyStr, uuid |-> EmptyStr, afterClear |-> FALSE]
NoHist == [prov |-> NoProv, cleared |-> FALSE]

HistAfter(res) ==
    IF ~res.ens.called THEN hist
    ELSE [prov |-> IF res.ens.err = Nil /\ ~hist.prov.set
                   THEN [set |-> TRUE, serial |-> res.ens.serial,
                         uuid |-> res.ens.uuid, afterClear |-> hist.cleared]
                   ELSE hist.prov,
          cleared |-> FALSE]

Init ==
    /\ euid \in Euids
    /\ hw \in CoreMachines
    /\ strictMode = FALSE
    /\ loggerFunc = Stdout
    /\ login = DefaultLogin
    /\ disk = DefaultDisk
    /\ locks = NoLocks
    /\ store = EmptyStore
    /\ cache = NoCache
    /\ out = NoCall
    /\ hist = NoHist
    /\ procs = [p \in Procs |-> Idle]

(***************************************************************************)
(* Operations.                                                             *)
(***************************************************************************)
\* a new process starts as user e: the package variables are initialised
\* (strict mode off, the default logger) and no call has been made; the
\* files stay
Exec(e) ==
    /\ euid' = e
    /\ strictMode' = FALSE
    /\ loggerFunc' = Stdout
    /\ out' = NoCall
    /\ LET old == getCacheDir(euid, login, disk.dirs)
           new == getCacheDir(e, login, disk.dirs)
       IN  IF new = old THEN UNCHANGED <<cache, disk>>
           ELSE /\ cache' = disk.files[new]
                /\ disk' = [disk EXCEPT !.files[old] = cache,
                                        !.files[new] = NoCache]
    /\ UNCHANGED <<hw, store, hist, procs, login, locks>>

\* a call made while no provisioning call is in progress returns
Returned(rec) == out' = rec /\ UNCHANGED procs

\* (a variant that can only switch strict mode on)
SetStrictModeOn(enabled) ==
    /\ strictMode' = (strictMode \/ enabled)
    /\ Returned(CallRecord("SetStrictMode", EmptyStr, EmptyStr, EmptyStr,
                           enabled, Nil, << >>, NoOutcome(store), {}))
    /\ UNCHANGED <<euid, hw, loggerFunc, store, cache, hist, login, disk, locks>>

SetStrictMode(enabled) ==
    /\ strictMode' = enabled
    /\ Returned(CallRecord("SetStrictMode", EmptyStr, EmptyStr, EmptyStr,
                           enabled, Nil, << >>, NoOutcome(store), {}))
    /\ UNCHANGED <<euid, hw, loggerFunc, store, cache, hist, login, disk, locks>>

IsStrictMode ==
    /\ Returned(CallRecord("IsStrictMode", EmptyStr, EmptyStr, EmptyStr,
                           strictMode, Nil, << >>, NoOutcome(store), {}))
    /\ UNCHANGED <<euid, hw, strictMode, loggerFunc, store, cache, hist,
                   login, disk, locks>>

\* SetLogger(logger); logger = Noop stands for SetLogger(nil)
\* SetLogger(logger): a nil logger installs a function that does nothing;
\* the record of the call keeps the argument as its sink
SetLogger(logger) ==
    /\ loggerFunc' = IF logger = NilLogger THEN Noop ELSE logger
    /\ Returned([CallRecord("SetLogger", EmptyStr, EmptyStr, EmptyStr, FALSE,
                            Nil, << >>, NoOutcome(store), {})
                 EXCEPT !.sink = logger])
    /\ UNCHANGED <<euid, hw, strictMode, store, cache, hist, login, disk, locks>>

\* (a variant that checks for root first, as GenerateReMachID does)
GenerateEMachIDRootOnly(salt, t) ==
    LET r == IF checkRoot(euid) # Nil
             THEN [id |-> EmptyStr, err |-> checkRoot(euid)]
             ELSE GenerateEMachIDResult(salt, t)
    IN  /\ Returned(ClockCallRecord(salt, r, t))
        /\ UNCHANGED <<euid, hw, strictMode, loggerFunc, store, cache, hist,
                       login, disk, locks>>

GenerateEMachID(salt, t) ==
    LET r == GenerateEMachIDResult(salt, t)
    IN  /\ Returned(ClockCallRecord(salt, r, t))
        /\ UNCHANGED <<euid, hw, strictMode, loggerFunc, store, cache, hist,
                       login, disk, locks>>

GenerateReMachID(salt) ==
    \E r \in GenerateReMachIDResults(euid, hw, strictMode, store, salt) :
        /\ store' = r.res.store
        /\ hist' = HistAfter(r.res)
        /\ Returned(CallRecord("GenerateReMachID", salt, r.id, EmptyStr, FALSE,
                               r.err, r.res.warns, r.res,
                               Changed(store, r.res.store)))
        /\ UNCHANGED <<euid, hw, strictMode, loggerFunc, cache, login, disk, locks>>

GenerateReMachIDWithInfo(salt) ==
    \E r \in GenerateReMachIDWithInfoResults(euid, hw, strictMode, store, salt) :
        /\ store' = r.res.store
        /\ hist' = HistAfter(r.res)
        /\ Returned(CallRecord("GenerateReMachIDWithInfo", salt, r.id, EmptyStr,
                               r.usedFallback, r.err, r.res.warns, r.res,
                               Changed(store, r.res.store)))
        /\ UNCHANGED <<euid, hw, strictMode, loggerFunc, cache, login, disk, locks>>

GenerateBoth(salt, t) ==
    \E r \in GenerateBothResults(euid, hw, strictMode, store, salt, t) :
        /\ store' = r.res.store
        /\ hist' = HistAfter(r.res)
        /\ Returned(CallRecord("GenerateBoth", salt, r.ReMachID, r.EMachID,
                               r.UsedFallback, r.err, r.res.warns, r.res,
                               Changed(store, r.res.store)))
        /\ UNCHANGED <<euid, hw, strictMode, loggerFunc, cache, login, disk, locks>>

ClearFallbackFiles ==
    \E r \in ClearFallbackFilesResults(euid, store) :
        /\ store' = r.store
        /\ hist' = IF checkRoot(euid) # Nil THEN hist
                   ELSE [prov |-> NoProv, cleared |-> r.err = Nil]
        /\ Returned(CallRecord("ClearFallbackFiles", EmptyStr, EmptyStr,
                               EmptyStr, FALSE, r.err, << >>, NoOutcome(store),
                               Changed(store, r.store)))
        /\ UNCHANGED <<euid, hw, strictMode, loggerFunc, cache, login, disk, locks>>

HasFallbackFiles ==
    /\ Returned(CallRecord("HasFallbackFiles", EmptyStr, EmptyStr, EmptyStr,
                           HasFallbackFilesResult(euid, store), Nil, << >>,
                           NoOutcome(store), {}))
    /\ UNCHANGED <<euid, hw, strictMode, loggerFunc, store, cache, hist,
                   login, disk, locks>>

Next ==
    \/ \E e \in Euids : Exec(e)
    \/ \E b \in BOOLEAN : SetStrictMode(b)
    \/ IsStrictMode
    \/ \E salt \in Salts, t \in Instants : GenerateEMachID(salt, t)
    \/ \E salt \in Salts : GenerateReMachID(salt)
    \/ \E salt \in Salts : GenerateReMachIDWithInfo(salt)
    \/ \E salt \in Salts, t \in Instants : GenerateBoth(salt, t)
    \/ ClearFallbackFiles
    \/ HasFallbackFiles

Spec == Init /\ [][Next]_vars

(***************************************************************************)
(* The caching API.                                                        *)
(***************************************************************************)
\* the machines of the cache specification: one with hardware identifiers,
\* one without
CacheMachines ==
    {Machine(AllSysfs("value"), TRUE, AllDmi("value")),
     Machine(AllSysfs("absent"), FALSE, AllDmi("absent"))}

\* the records a caller passes to SaveCachedIDs: every field empty or
\* zero or not, the salt (the caller's string) also one that is not UTF-8
CallerCaches ==
    {CachedMachineIDs(re, e, salt, count, created) :
        re \in {EmptyStr, <<"r">>}, e \in {EmptyStr, <<"e">>},
        salt \in {EmptyStr, <<"a">>, <<"a", InvalidByte>>},
        count \in {0, MaxCount}, created \in {0, MaxTime}}

NoResult(fb, file, err, saved) ==
    CacheResult(EmptyStr, FALSE, err, << >>, NoOutcome(fb), file, saved)

LoadCachedIDs ==
    LET l == LoadCachedIDsResult(cache)
    IN  /\ Returned(CacheCallRecord("LoadCachedIDs", EmptyStr,
                                    NoResult(store, cache, l.err, FALSE),
                                    l.cache))
        /\ UNCHANGED <<euid, hw, strictMode, loggerFunc, store, cache, hist,
                       login, disk, locks>>

SaveCachedIDs(c) ==
    \E fault \in CacheFaults :
        LET sv == SaveCachedIDsWith(cache, c, fault)
        IN  /\ cache' = sv.file
            /\ Returned(CacheCallRecord("SaveCachedIDs", EmptyStr,
                                        AfterSave(NoResult(store, sv.file,
                                                           sv.err, TRUE),
                                                  sv.err),
                                        c))
            /\ UNCHANGED <<euid, hw, strictMode, loggerFunc, store, hist,
                           login, disk, locks>>

ClearCache ==
    \E fault \in {NoFault, Fault("remove", cacheFile)} :
        LET r == ClearCacheWith(cache, fault)
        IN  /\ cache' = r.file
            /\ Returned(CacheCallRecord("ClearCache", EmptyStr,
                                        NoResult(store, r.file, r.err, FALSE),
                                        ZeroCache))
            /\ UNCHANGED <<euid, hw, strictMode, loggerFunc, store, hist,
                           login, disk, locks>>

GetOrGenerateReMachID(salt, t) ==
    \E r \in GetOrGenerateReMachIDResults(euid, hw, strictMode, store, cache,
                                          salt, t) :
        /\ store' = r.res.store
        /\ hist' = HistAfter(r.res)
        /\ cache' = r.file
        /\ Returned(CacheCallRecord("GetOrGenerateReMachID", salt, r, ZeroCache))
        /\ UNCHANGED <<euid, hw, strictMode, loggerFunc, login, disk, locks>>

\* (a variant that asks for root before it generates)
GetOrGenerateEMachIDGated(salt, t) ==
    \E r \in IF checkRoot(euid) # Nil
             THEN {NoResult(store, cache, checkRoot(euid), FALSE)}
             ELSE GetOrGenerateEMachIDResults(store, cache, salt, t) :
        /\ cache' = r.file
        /\ Returned(CacheCallRecord("GetOrGenerateEMachID", salt, r, ZeroCache))
        /\ UNCHANGED <<euid, hw, strictMode, loggerFunc, store, hist, login,
                       disk, locks>>

GetOrGenerateEMachID(salt, t) ==
    \E r \in GetOrGenerateEMachIDResults(store, cache, salt, t) :
        /\ cache' = r.file
        /\ Returned(CacheCallRecord("GetOrGenerateEMachID", salt, r, ZeroCache))
        /\ UNCHANGED <<euid, hw, strictMode, loggerFunc, store, hist, login,
                       disk, locks>>

GetOrGenerateBoth(salt, t) ==
    \E r \in GetOrGenerateBothResults(euid, hw, strictMode, store, cache,
                                      salt, t) :
        /\ store' = r.res.store
        /\ hist' = HistAfter(r.res)
        /\ cache' = r.file
        /\ Returned([CallRecord("GetOrGenerateBoth", salt, r.info.ReMachID,
                                r.info.EMachID, r.ok, r.err, r.warns, r.res,
                                Changed(store, r.res.store))
                     EXCEPT !.saved = r.saved, !.saveErr = r.saveErr,
                            !.info = r.info])
        /\ UNCHANGED <<euid, hw, strictMode, loggerFunc, login, disk, locks>>

RotateEMachID(salt, t) ==
    \E r \in RotateEMachIDResults(store, cache, salt, t) :
        /\ cache' = r.file
        /\ Returned(CacheCallRecord("RotateEMachID", salt, r, ZeroCache))
        /\ UNCHANGED <<euid, hw, strictMode, loggerFunc, store, hist, login,
                       disk, locks>>

\* the counter is driven no further than MaxCount
IncrementActionCount ==
    /\ LoadCachedIDsResult(cache).cache.ActionCount < MaxCount
    /\ \E r \in IncrementActionCountResults(cache) :
        /\ cache' = r.file
        /\ Returned(CacheCallRecord("IncrementActionCount", EmptyStr,
                                    AfterSave(NoResult(store, r.file, r.err,
                                                       r.saved), r.saveErr),
                                    [ZeroCache EXCEPT !.ActionCount = r.count]))
        /\ UNCHANGED <<euid, hw, strictMode, loggerFunc, store, hist, login,
                       disk, locks>>

\* the cache specification starts on a machine that root has provisioned
\* before: the fallback directory holds its two tokens
ProvisionedStore == ensureFallbackFilesWith(EmptyStore, NoFault, 1, 2).store

InitCache ==
    /\ euid \in Euids
    /\ hw \in CacheMachines
    /\ strictMode = FALSE
    /\ loggerFunc = Stdout
    /\ login = DefaultLogin
    /\ disk = DefaultDisk
    /\ locks = NoLocks
    /\ store = ProvisionedStore
    /\ cache = NoCache
    /\ out = NoCall
    /\ hist = NoHist
    /\ procs = [p \in Procs |-> Idle]

NextCache ==
    \/ \E e \in Euids : Exec(e)
    \/ \E salt \in Salts, t \in Instants : GenerateEMachID(salt, t)
    \/ LoadCachedIDs
    \/ ClearCache
    \/ \E salt \in Salts, t \in Instants : GetOrGenerateReMachID(salt, t)
    \/ \E salt \in Salts, t \in Instants : GetOrGenerateEMachID(salt, t)

SpecCache == InitCache /\ [][NextCache]_vars

\* the cache-mutating operations, called by root on a machine that has
\* hardware identifiers, from an absent cache
InitCacheOps ==
    /\ euid = Root
    /\ hw = Machine(AllSysfs("value"), TRUE, AllDmi("value"))
    /\ strictMode = FALSE
    /\ loggerFunc = Stdout
    /\ login = DefaultLogin
    /\ disk = DefaultDisk
    /\ locks = NoLocks
    /\ store = EmptyStore
    /\ cache = NoCache
    /\ out = NoCall
    /\ hist = NoHist
    /\ procs = [p \in Procs |-> Idle]

NextCacheOps ==
    \/ \E salt \in Salts, t \in Instants : GetOrGenerateReMachID(salt, t)
    \/ \E salt \in Salts, t \in Instants : GetOrGenerateEMachID(salt, t)
    \/ \E salt \in Salts, t \in Instants : RotateEMachID(salt, t)
    \/ IncrementActionCount
    \/ ClearCache

SpecCacheOps == InitCacheOps /\ [][NextCacheOps]_vars

(***************************************************************************)
(* Provisioning by concurrent callers: ensureFallbackFiles and             *)
(* readOrCreateFallbackFile one system call at a step.  The callers are    *)
(* root processes (or goroutines of one) that found no hardware            *)
(* identifier, strict mode being off.                                      *)
(***************************************************************************)
Others == <<euid, hw, strictMode, loggerFunc, cache, login, disk, locks>>

\* the call proceeds to the next token file, or to its return
Advance(c, value) ==
    IF c.cur = fallbackSerialFile
    THEN [c EXCEPT !.pc = "read", !.cur = fallbackUUIDFile, !.serial = value,
                   !.val = EmptyStr]
    ELSE [c EXCEPT !.pc = "return", !.uuid = value, !.val = EmptyStr]

\* the call fails: it returns no tokens
Failed(c, err) ==
    [c EXCEPT !.pc = "return", !.val = EmptyStr, !.serial = EmptyStr,
              !.uuid = EmptyStr, !.err = err]

\* process p enters ensureFallbackFiles
ProvCall(p) ==
    /\ procs[p].pc = "idle"
    /\ procs' = [procs EXCEPT ![p] = [Idle EXCEPT !.pc = "mkdir"]]
    /\ UNCHANGED <<store, out, hist>>
    /\ UNCHANGED Others

\* os.MkdirAll(fallbackDir, 0700)
ProvMkdir(p) ==
    /\ procs[p].pc = "mkdir"
    /\ store' = MkdirAll(store, DirPerm)
    /\ procs' = [procs EXCEPT ![p].pc = "read"]
    /\ UNCHANGED <<out, hist>>
    /\ UNCHANGED Others

\* os.ReadFile(path) and the test on what it read
ProvRead(p) ==
    /\ procs[p].pc = "read"
    /\ LET f == store.files[procs[p].cur]
       IN  procs' = [procs EXCEPT ![p] =
                        IF f.exists /\ TrimSpace(f.data) # EmptyStr
                        THEN Advance(@, TrimSpace(f.data))
                        ELSE [@ EXCEPT !.pc = "rand"]]
    /\ UNCHANGED <<store, out, hist>>
    /\ UNCHANGED Others

\* generateRandomHex(fallbackDataLength)
ProvRand(p, k) ==
    /\ procs[p].pc = "rand"
    /\ procs' = [procs EXCEPT ![p].pc = "open", ![p].val = generateRandomHex(k),
                              ![p].generated = @ \cup {procs[p].cur}]
    /\ UNCHANGED <<store, out, hist>>
    /\ UNCHANGED Others

\* os.WriteFile(path, value, 0600): the file is opened and truncated
ProvOpen(p) ==
    /\ procs[p].pc = "open"
    /\ store' = OpenTrunc(store, procs[p].cur, FilePerm)
    /\ procs' = [procs EXCEPT ![p].pc = "write"]
    /\ UNCHANGED <<out, hist>>
    /\ UNCHANGED Others

\* os.WriteFile, continued: the value is written, and the call returns it
ProvWrite(p) ==
    /\ procs[p].pc = "write"
    /\ store' = [store EXCEPT !.files[procs[p].cur].exists = TRUE,
                              !.files[procs[p].cur].data = procs[p].val]
    /\ procs' = [procs EXCEPT ![p] = Advance(@, procs[p].val)]
    /\ UNCHANGED <<out, hist>>
    /\ UNCHANGED Others

\* a system call of the provisioning call fails
ProvFail(p) ==
    /\ procs[p].pc \in {"mkdir", "rand", "open", "write"}
    /\ procs' = [procs EXCEPT ![p] =
                    Failed(@, Wrap(procs[p].pc, ErrFallbackFileCreation))]
    /\ UNCHANGED <<store, out, hist>>
    /\ UNCHANGED Others

\* ensureFallbackFiles returns to its caller
ProvReturn(p) ==
    /\ procs[p].pc = "return"
    /\ LET c == procs[p]
           r == Outcome(c.serial, c.uuid, c.err = Nil, c.err, << >>,
                        FallbackWarnings,
                        EnsureView(EnsureResult(store, c.serial, c.uuid, c.err,
                                                c.generated)),
                        store)
       IN  /\ out' = CallRecord("ensureFallbackFiles", EmptyStr, EmptyStr,
                                EmptyStr, c.err = Nil, c.err, r.warns, r, {})
           /\ hist' = HistAfter(r)
    /\ procs' = [procs EXCEPT ![p] = Idle]
    /\ UNCHANGED store
    /\ UNCHANGED Others

\* ClearFallbackFiles(), called while no provisioning call is in progress
ProvClear ==
    /\ \A p \in Procs : procs[p].pc = "idle"
    /\ ClearFallbackFiles

InitProv ==
    /\ euid = Root
    /\ hw = Machine(AllSysfs("absent"), FALSE, AllDmi("absent"))
    /\ strictMode = FALSE
    /\ loggerFunc = Stdout
    /\ login = DefaultLogin
    /\ disk = DefaultDisk
    /\ locks = NoLocks
    /\ store = EmptyStore
    /\ cache = NoCache
    /\ out = NoCall
    /\ hist = NoHist
    /\ procs = [p \in Procs |-> Idle]

NextProv ==
    \/ \E p \in Procs : ProvCall(p)
    \/ \E p \in Procs : ProvMkdir(p)
    \/ \E p \in Procs : ProvRead(p)
    \/ \E p \in Procs, k \in RandomChoices : ProvRand(p, k)
    \/ \E p \in Procs : ProvOpen(p)
    \/ \E p \in Procs : ProvWrite(p)
    \/ \E p \in Procs : ProvFail(p)
    \/ \E p \in Procs : ProvReturn(p)
    \/ ProvClear

SpecProv == InitProv /\ [][NextProv]_vars

\* hashData on its own: the parts it is called with, two (serial and uuid,
\* timestamp and salt) or three (serial, uuid and salt) short strings
HashParts == {EmptyStr, <<"a">>, <<"b">>, <<"c">>, <<"a", "b">>, <<"b", "c">>}
HashInputs ==
    {<<p, q>> : p \in HashParts, q \in HashParts}
    \cup {<<p, q, r>> : p \in HashParts, q \in HashParts, r \in HashParts}

\* the record of a hashData call: the parts and the digest returned
HashData(data) ==
    /\ out' = [op |-> "hashData", data |-> data, id |-> hashData(data)]
    /\ UNCHANGED <<euid, hw, strictMode, loggerFunc, store, cache, hist,
                   procs, login, disk, locks>>

InitHash == InitCacheOps
NextHash == \E data \in HashInputs : HashData(data)
SpecHash == InitHash /\ [][NextHash]_vars

\* the resolver on its own, called by root through GenerateReMachIDWithInfo.
\* The candidates of each field in the order getHardwareIdentifiers tries
\* them:
SerialSources ==
    <<sysfsPaths.productSerial, sysfsPaths.chassisSerial, sysfsPaths.boardSerial,
      "system-serial-number", "chassis-serial-number", "baseboard-serial-number">>
UUIDSources == <<sysfsPaths.productUUID, "system-uuid">>

\* what a source without a value can hold
EmptyKinds == SourceKinds \ {"value"}

\* the machine whose serial sources hold a value from the i-th on and whose
\* uuid sources from the j-th on, the sources before them being of the
\* given kind
TierMachine(i, j, kind, installed) ==
    LET kinds == [n \in SysfsFiles \cup DmiKeywords |->
                     IF \/ \E p \in i..Len(SerialSources) : SerialSources[p] = n
                        \/ \E p \in j..Len(UUIDSources) : UUIDSources[p] = n
                     THEN "value" ELSE kind]
    IN  Machine([f \in SysfsFiles |-> kinds[f]], installed,
                [k \in DmiKeywords |-> kinds[k]])

\* with dmidecode installed every kind of empty source, without it two
TierMachines ==
    {TierMachine(i, j, kind, TRUE) :
        i \in 1..(Len(SerialSources) + 1), j \in 1..(Len(UUIDSources) + 1),
        kind \in EmptyKinds}
    \cup {TierMachine(i, j, kind, FALSE) :
        i \in 1..(Len(SerialSources) + 1), j \in 1..(Len(UUIDSources) + 1),
        kind \in {"absent", "oem"}}

InitResolve ==
    /\ euid = Root
    /\ hw \in TierMachines
    /\ strictMode = FALSE
    /\ loggerFunc = Stdout
    /\ login = DefaultLogin
    /\ disk = DefaultDisk
    /\ locks = NoLocks
    /\ store = EmptyStore
    /\ cache = NoCache
    /\ out = NoCall
    /\ hist = NoHist
    /\ procs = [p \in Procs |-> Idle]

NextResolve ==
    \/ \E b \in BOOLEAN : SetStrictMode(b)
    \/ \E salt \in {EmptyStr, <<"a">>} : GenerateReMachIDWithInfo(salt)

SpecResolve == InitResolve /\ [][NextResolve]_vars

(***************************************************************************)
(* The token files: provisioning, ClearFallbackFiles and HasFallbackFiles  *)
(* on a machine without hardware identifiers, the fallback directory       *)
(* absent at first or holding a file that is not the library's.            *)
(***************************************************************************)
ForeignStore ==
    [EmptyStore EXCEPT !.dir = [exists |-> TRUE, mode |-> DirPerm,
                                foreign |-> TRUE]]

InitTokens ==
    /\ euid \in Euids
    /\ hw = Machine(AllSysfs("absent"), FALSE, AllDmi("absent"))
    /\ strictMode = FALSE
    /\ loggerFunc = Stdout
    /\ login = DefaultLogin
    /\ disk = DefaultDisk
    /\ locks = NoLocks
    /\ store \in {EmptyStore, ForeignStore}
    /\ cache = NoCache
    /\ out = NoCall
    /\ hist = NoHist
    /\ procs = [p \in Procs |-> Idle]

NextTokens ==
    \/ \E e \in Euids : Exec(e)
    \/ GenerateReMachID(<<"a">>)
    \/ ClearFallbackFiles
    \/ HasFallbackFiles

SpecTokens == InitTokens /\ [][NextTokens]_vars

(***************************************************************************)
(* The cache file alone: SaveCachedIDs, LoadCachedIDs and ClearCache       *)
(* called directly, by a user who is not root.                             *)
(***************************************************************************)
InitCacheFile ==
    /\ euid = User
    /\ hw = Machine(AllSysfs("value"), TRUE, AllDmi("value"))
    /\ strictMode = FALSE
    /\ loggerFunc = Stdout
    /\ login = DefaultLogin
    /\ disk = DefaultDisk
    /\ locks = NoLocks
    /\ store = EmptyStore
    /\ cache = NoCache
    /\ out = NoCall
    /\ hist = NoHist
    /\ procs = [p \in Procs |-> Idle]

NextCacheFile ==
    \/ \E c \in CallerCaches : SaveCachedIDs(c)
    \/ LoadCachedIDs
    \/ ClearCache

SpecCacheFile == InitCacheFile /\ [][NextCacheFile]_vars

(***************************************************************************)
(* Every operation that returns an identifier, on a machine without        *)
(* hardware identifiers: the calls fail for an empty salt, for a caller    *)
(* who is not root, in strict mode, when provisioning fails and when the   *)
(* cache cannot be written.                                                *)
(***************************************************************************)
FailureSalts == {EmptyStr, <<"a">>}

InitFailure ==
    /\ euid \in Euids
    /\ hw = Machine(AllSysfs("absent"), FALSE, AllDmi("absent"))
    /\ strictMode \in BOOLEAN
    /\ loggerFunc = Stdout
    /\ login = DefaultLogin
    /\ disk = DefaultDisk
    /\ locks = NoLocks
    /\ store = EmptyStore
    /\ cache = NoCache
    /\ out = NoCall
    /\ hist = NoHist
    /\ procs = [p \in Procs |-> Idle]

NextFailure ==
    \/ \E salt \in FailureSalts : GenerateEMachID(salt, 0)
    \/ GenerateReMachID(<<"a">>)
    \/ GenerateReMachIDWithInfo(<<"a">>)
    \/ \E salt \in FailureSalts : GenerateBoth(salt, 0)
    \/ GetOrGenerateReMachID(<<"a">>, 0)
    \/ \E salt \in FailureSalts : GetOrGenerateEMachID(salt, 0)
    \/ \E salt \in FailureSalts : GetOrGenerateBoth(salt, 0)
    \/ \E salt \in FailureSalts : RotateEMachID(salt, 0)

SpecFailure == InitFailure /\ [][NextFailure]_vars

(***************************************************************************)
(* A resolution call concurrent with configuration calls:                  *)
(* getHardwareIdentifiers one step at a time (the hardware reads, the read *)
(* of strictMode under its lock, each logWarning under the logger's lock,  *)
(* ensureFallbackFiles), while another goroutine calls SetStrictMode and   *)
(* SetLogger.  The record of the call keeps, for the properties, the flag  *)
(* and the sink as they were when the call was entered.                    *)
(***************************************************************************)
Resolver == "p1"

ResolveIdle ==
    [pc |-> "idle", strictAtEntry |-> FALSE, sinkAtEntry |-> Stdout,
     h |-> [serial |-> EmptyStr, uuid |-> EmptyStr, reads |-> << >>],
     delivered |-> << >>, res |-> NoOutcome(EmptyStore)]

\* the call is entered
ResolveCall ==
    /\ procs[Resolver].pc = "idle"
    /\ procs' = [procs EXCEPT ![Resolver] =
                    [ResolveIdle EXCEPT !.pc = "hardware",
                                        !.strictAtEntry = strictMode,
                                        !.sinkAtEntry = loggerFunc]]
    /\ UNCHANGED <<store, out, hist>>
    /\ UNCHANGED Others

\* the sysfs reads and the dmidecode lookups, and the return when they gave
\* a value
ResolveHardware ==
    /\ procs[Resolver].pc = "hardware"
    /\ LET h == HardwareTiers(hw)
       IN  procs' = [procs EXCEPT ![Resolver] =
              IF h.done \/ h.serial # EmptyStr \/ h.uuid # EmptyStr
              THEN [@ EXCEPT !.pc = "return",
                             !.res = Outcome(h.serial, h.uuid, FALSE, h.err,
                                             h.reads, << >>, NoEnsure, store)]
              ELSE [@ EXCEPT !.pc = "strict",
                             !.h = [serial |-> h.serial, uuid |-> h.uuid,
                                    reads |-> h.reads]]]
    /\ UNCHANGED <<store, out, hist>>
    /\ UNCHANGED Others

\* isStrict := strictMode, under strictModeMu.RLock
ResolveStrict ==
    /\ procs[Resolver].pc = "strict"
    /\ procs' = [procs EXCEPT ![Resolver] =
              IF strictMode
              THEN [@ EXCEPT !.pc = "return",
                             !.res = Outcome(EmptyStr, EmptyStr, FALSE,
                                             ErrStrictModeNoHardwareID,
                                             procs[Resolver].h.reads, << >>,
                                             NoEnsure, store)]
              ELSE [@ EXCEPT !.pc = "warn"]]
    /\ UNCHANGED <<store, out, hist>>
    /\ UNCHANGED Others

\* the next of the three logWarning calls
ResolveWarn ==
    /\ procs[Resolver].pc = "warn"
    /\ LET n == Len(procs[Resolver].delivered) + 1
       IN  procs' = [procs EXCEPT ![Resolver] =
              [@ EXCEPT !.delivered =
                           Append(@, logWarning(loggerFunc, FallbackWarnings[n])),
                        !.pc = IF n = Len(FallbackWarnings) THEN "ensure"
                               ELSE "warn"]]
    /\ UNCHANGED <<store, out, hist>>
    /\ UNCHANGED Others

\* ensureFallbackFiles() and what the call returns after it
ResolveEnsure ==
    /\ procs[Resolver].pc = "ensure"
    /\ \E e \in ensureFallbackFiles(store) :
          /\ store' = e.store
          /\ procs' = [procs EXCEPT ![Resolver] =
                [@ EXCEPT !.pc = "return",
                          !.res = IF e.err # Nil
                                  THEN Outcome(EmptyStr, EmptyStr, FALSE, e.err,
                                               procs[Resolver].h.reads,
                                               FallbackWarnings, EnsureView(e),
                                               e.store)
                                  ELSE Outcome(e.serial, e.uuid, TRUE, Nil,
                                               procs[Resolver].h.reads,
                                               FallbackWarnings, EnsureView(e),
                                               e.store)]]
    /\ UNCHANGED <<out, hist>>
    /\ UNCHANGED Others

\* the call returns
ResolveReturn ==
    /\ procs[Resolver].pc = "return"
    /\ LET c == procs[Resolver]
       IN  /\ out' = [CallRecord("getHardwareIdentifiers", EmptyStr, EmptyStr,
                                 EmptyStr, c.res.usedFallback, c.res.err,
                                 c.res.warns, c.res, {})
                      EXCEPT !.strict = c.strictAtEntry,
                             !.sink = c.sinkAtEntry,
                             !.delivered = c.delivered]
           /\ hist' = HistAfter(c.res)
    /\ procs' = [procs EXCEPT ![Resolver] = ResolveIdle]
    /\ UNCHANGED store
    /\ UNCHANGED Others

InitSnapshot ==
    /\ euid = Root
    /\ hw = Machine(AllSysfs("absent"), FALSE, AllDmi("absent"))
    /\ strictMode = FALSE
    /\ loggerFunc = Stdout
    /\ login = DefaultLogin
    /\ disk = DefaultDisk
    /\ locks = NoLocks
    /\ store = EmptyStore
    /\ cache = NoCache
    /\ out = NoCall
    /\ hist = NoHist
    /\ procs = [p \in Procs |-> ResolveIdle]

NextSnapshot ==
    \/ ResolveCall
    \/ ResolveHardware
    \/ ResolveStrict
    \/ ResolveWarn
    \/ ResolveEnsure
    \/ ResolveReturn
    \/ \E b \in BOOLEAN : SetStrictMode(b)
    \/ SetLogger("f")

SpecSnapshot == InitSnapshot /\ [][NextSnapshot]_vars

(***************************************************************************)
(* The configuration calls among the other operations: SetStrictMode,      *)
(* IsStrictMode and SetLogger interleaved (sequentially) with generation,  *)
(* cache and clear operations on a machine without hardware identifiers.   *)
(***************************************************************************)
InitConfig ==
    /\ euid \in Euids
    /\ hw = Machine(AllSysfs("absent"), FALSE, AllDmi("absent"))
    /\ strictMode = FALSE
    /\ loggerFunc = Stdout
    /\ login = DefaultLogin
    /\ disk = DefaultDisk
    /\ locks = NoLocks
    /\ store = EmptyStore
    /\ cache = NoCache
    /\ out = NoCall
    /\ hist = NoHist
    /\ procs = [p \in Procs |-> Idle]

NextConfig ==
    \/ \E b \in BOOLEAN : SetStrictMode(b)
    \/ IsStrictMode
    \/ \E f \in {NilLogger, "f"} : SetLogger(f)
    \/ GenerateReMachID(<<"a">>)
    \/ GetOrGenerateReMachID(<<"a">>, 0)
    \/ ClearFallbackFiles
    \/ ClearCache

SpecConfig == InitConfig /\ [][NextConfig]_vars

(***************************************************************************)
(* The caching API in a changing environment: the six cache operations,    *)
(* called by root or by an ordinary user, in strict mode or not, on a      *)
(* machine whose hardware identifiers can appear and disappear between     *)
(* calls.  The cache starts absent.                                        *)
(***************************************************************************)
\* the identifier sources of the machine change between two calls (a board
\* swap, a firmware update, an unreadable /sys)
HardwareChange(machine) ==
    /\ hw # machine
    /\ hw' = machine
    /\ out' = NoCall
    /\ UNCHANGED <<euid, strictMode, loggerFunc, store, cache, hist, procs,
                   login, disk, locks>>

\* the salts requested of the caching API: none, one, another, and one
\* that is not valid UTF-8
CachedSalts == {EmptyStr, <<"a">>, <<"a", "a">>, <<"a", InvalidByte>>}

InitCached ==
    /\ euid = Root
    /\ hw \in CacheMachines
    /\ strictMode = FALSE
    /\ loggerFunc = Stdout
    /\ login = DefaultLogin
    /\ disk = DefaultDisk
    /\ locks = NoLocks
    /\ store = ProvisionedStore
    /\ cache = NoCache
    /\ out = NoCall
    /\ hist = NoHist
    /\ procs = [p \in Procs |-> Idle]

NextCached ==
    \/ \E e \in Euids : Exec(e)
    \/ \E b \in BOOLEAN : SetStrictMode(b)
    \/ \E machine \in CacheMachines : HardwareChange(machine)
    \/ \E salt \in CachedSalts : GetOrGenerateReMachID(salt, MaxTime)
    \/ GetOrGenerateEMachID(<<"a">>, MaxTime)
    \/ GetOrGenerateBoth(<<"a">>, MaxTime)
    \/ \E salt \in {EmptyStr, <<"a">>}, t \in Instants : RotateEMachID(salt, t)
    \/ IncrementActionCount
    \/ ClearCache

SpecCached == InitCached /\ [][NextCached]_vars

(***************************************************************************)
(* Regeneration of the reconstructable id: GetOrGenerateReMachID called    *)
(* with two salts by root or by an ordinary user, in strict mode or not,   *)
(* on a machine whose hardware identifiers can disappear and whose         *)
(* fallback directory has not been provisioned.                            *)
(***************************************************************************)
InitRegenerate ==
    /\ euid = Root
    /\ hw \in CacheMachines
    /\ strictMode = FALSE
    /\ loggerFunc = Stdout
    /\ login = DefaultLogin
    /\ disk = DefaultDisk
    /\ locks = NoLocks
    /\ store = EmptyStore
    /\ cache = NoCache
    /\ out = NoCall
    /\ hist = NoHist
    /\ procs = [p \in Procs |-> Idle]

NextRegenerate ==
    \/ \E e \in Euids : Exec(e)
    \/ \E b \in BOOLEAN : SetStrictMode(b)
    \/ \E machine \in CacheMachines : HardwareChange(machine)
    \/ \E salt \in CachedSalts \ {EmptyStr} :
          GetOrGenerateReMachID(salt, MaxTime)
    \/ GetOrGenerateEMachID(<<"a">>, MaxTime)

SpecRegenerate == InitRegenerate /\ [][NextRegenerate]_vars

(***************************************************************************)
(* The cache location: a user's session on a machine with hardware        *)
(* identifiers, from which the program is run elevated through sudo and    *)
(* not elevated, in any order.  Each run uses the cache file of the        *)
(* directory getCacheDir gives it.                                         *)
(***************************************************************************)
InitLocation ==
    /\ euid = User
    /\ hw = Machine(AllSysfs("value"), TRUE, AllDmi("value"))
    /\ strictMode = FALSE
    /\ loggerFunc = Stdout
    /\ login \in Logins
    /\ disk = DiskOf(login)
    /\ locks = NoLocks
    /\ store = EmptyStore
    /\ cache = NoCache
    /\ out = NoCall
    /\ hist = NoHist
    /\ procs = [p \in Procs |-> Idle]

NextLocation ==
    \/ \E e \in Euids : Exec(e)
    \/ \E salt \in {<<"a">>, <<"a", "a">>} : GetOrGenerateReMachID(salt, 0)
    \/ GetOrGenerateEMachID(<<"a">>, 0)
    \/ LoadCachedIDs
    \/ ClearCache

SpecLocation == InitLocation /\ [][NextLocation]_vars

(***************************************************************************)
(* Concurrent cache operations.  Two root processes of the same session,   *)
(* on a machine with hardware identifiers, call the operations that write  *)
(* the cache.  A call loads the cache file and decides in one step (the    *)
(* generation reads no state another call writes); SaveCachedIDs is then   *)
(* two steps: the open of os.WriteFile, which truncates the file (with     *)
(* MkdirAll before it, which no other step undoes), and its write, which   *)
(* puts the document at the start of the file.  The operating system fails *)
(* no call.                                                                *)
(***************************************************************************)
SaveOps ==
    {"GetOrGenerateReMachID", "GetOrGenerateEMachID", "RotateEMachID",
     "IncrementActionCount"}

\* a process's call: where it stands, what it was asked, what it decided
\* to return and the document it saves; written tells whether the last
\* write of the cache file was the write of this process
SaveIdle ==
    [pc |-> "idle", op |-> "none", salt |-> EmptyStr,
     res |-> NoResult(EmptyStore, NoCache, Nil, FALSE), count |-> 0,
     data |-> << >>, written |-> FALSE]

\* the results of the call op(salt) on the cache file as loaded, every
\* system call of the save succeeding
SaveResults(op, salt, t, file) ==
    IF op = "GetOrGenerateReMachID"
    THEN {[res |-> r, count |-> 0] :
             r \in {x \in GetOrGenerateReMachIDResults(euid, hw, strictMode,
                                                       store, file, salt, t) :
                       x.saveErr = Nil}}
    ELSE IF op = "GetOrGenerateEMachID"
    THEN {[res |-> r, count |-> 0] :
             r \in {x \in GetOrGenerateEMachIDResults(store, file, salt, t) :
                       x.saveErr = Nil}}
    ELSE IF op = "RotateEMachID"
    THEN {[res |-> r, count |-> 0] :
             r \in {x \in RotateEMachIDResults(store, file, salt, t) :
                       x.saveErr = Nil}}
    ELSE {[res |-> NoResult(store, r.file, r.err, r.saved), count |-> r.count] :
             r \in {x \in IncrementActionCountResults(file) : x.saveErr = Nil}}

\* the call, up to the document json.MarshalIndent makes of the record to
\* save: LoadCachedIDs() and what the operation does with the record.  A
\* call that saves nothing returns here.
SaveCall(p, op, salt, t) ==
    /\ procs[p].pc = "idle"
    /\ op = "IncrementActionCount" =>
          LoadCachedIDsResult(cache).cache.ActionCount < MaxCount
    /\ \E r \in SaveResults(op, salt, t, cache) :
          IF r.res.saved
          THEN /\ procs' = [procs EXCEPT ![p] =
                               [@ EXCEPT !.pc = "open", !.op = op, !.salt = salt,
                                         !.res = [r.res EXCEPT !.file = NoCache],
                                         !.count = r.count,
                                         !.data = r.res.file.data]]
               /\ UNCHANGED out
          ELSE /\ out' = CacheCallRecord(op, salt,
                                         [r.res EXCEPT !.res = NoOutcome(store),
                                                       !.file = NoCache],
                                         [ZeroCache EXCEPT !.ActionCount = r.count])
               /\ UNCHANGED procs
    /\ UNCHANGED <<cache, store, hist>>
    /\ UNCHANGED <<euid, hw, strictMode, loggerFunc, login, disk, locks>>

\* os.MkdirAll(cacheDir, 0755), then os.WriteFile(cachePath, data, 0644):
\* the file is opened with O_TRUNC
SaveOpen(p) ==
    /\ procs[p].pc = "open"
    /\ cache' = [cache EXCEPT !.dir = TRUE, !.exists = TRUE, !.data = << >>]
    /\ procs' = [procs EXCEPT ![p].pc = "write"]
    /\ UNCHANGED <<store, out, hist>>
    /\ UNCHANGED <<euid, hw, strictMode, loggerFunc, login, disk, locks>>

\* os.WriteFile, continued: the document is written at offset 0 of what
\* the file holds by now, and the call returns
SaveWrite(p) ==
    /\ procs[p].pc = "write"
    /\ cache' = [cache EXCEPT !.data = WriteAtStart(cache.data, procs[p].data)]
    /\ out' = CacheCallRecord(procs[p].op, procs[p].salt,
                              [procs[p].res EXCEPT !.res = NoOutcome(store)],
                              [ZeroCache EXCEPT !.ActionCount = procs[p].count])
    /\ procs' = [q \in Procs |->
                    IF q = p THEN [SaveIdle EXCEPT !.data = procs[p].data,
                                                   !.written = TRUE]
                    ELSE [procs[q] EXCEPT !.written = FALSE]]
    /\ UNCHANGED <<store, hist>>
    /\ UNCHANGED <<euid, hw, strictMode, loggerFunc, login, disk, locks>>

InitSaves ==
    /\ euid = Root
    /\ hw = Machine(AllSysfs("value"), TRUE, AllDmi("value"))
    /\ strictMode = FALSE
    /\ loggerFunc = Stdout
    /\ login = DefaultLogin
    /\ disk = DefaultDisk
    /\ locks = NoLocks
    /\ store = EmptyStore
    /\ cache = NoCache
    /\ out = NoCall
    /\ hist = NoHist
    /\ procs = [p \in Procs |-> SaveIdle]

NextSaves ==
    \/ \E p \in Procs : SaveCall(p, "GetOrGenerateReMachID", <<"a">>, 0)
    \/ \E p \in Procs : SaveCall(p, "GetOrGenerateEMachID", <<"a">>, 0)
    \/ \E p \in Procs : SaveCall(p, "RotateEMachID", <<"a">>, MaxTime)
    \/ \E p \in Procs : SaveCall(p, "IncrementActionCount", EmptyStr, 0)
    \/ \E p \in Procs : SaveOpen(p)
    \/ \E p \in Procs : SaveWrite(p)

SpecSaves == InitSaves /\ [][NextSaves]_vars

(***************************************************************************)
(* Concurrent configuration and resolution calls, a lock operation at a    *)
(* step.  The processes are root on a machine with or without hardware     *)
(* identifiers; the token files are provisioned.  A call of                *)
(* GenerateReMachID follows getHardwareIdentifiers: the hardware channels, *)
(* then strictMode under the read lock of strictModeMu, then the three     *)
(* warnings, each under the read lock of loggerFuncMu for as long as the   *)
(* sink runs, then the token files.  The sink makes no call of the         *)
(* library and returns.                                                    *)
(***************************************************************************)
LockProcs == {"p1", "p2"}

\* a process's call: where it stands, the operation and its argument, the
\* mutex its lock operation is on, the flag it read and the warnings it
\* has still to log
LockIdle ==
    [pc |-> "idle", op |-> "none", arg |-> EmptyStr, mu |-> "strictModeMu",
     val |-> FALSE, n |-> 0]

\* what a call returns: the operation and its argument, the id or the flag,
\* and the error
LockCallRecord(op, arg, id, flag, err) ==
    [NoCall EXCEPT !.op = op, !.salt = arg, !.id = id, !.flag = flag,
                   !.err = err]

\* the call of GenerateReMachID needs the fallback tier: the caller is root
\* and the hardware channels gave nothing
NeedsFallbackTier ==
    /\ checkRoot(euid) = Nil
    /\ ~HardwareTiers(hw).done
    /\ HardwareTiers(hw).serial = EmptyStr
    /\ HardwareTiers(hw).uuid = EmptyStr

\* the call of p returns rec
LockReturn(p, rec) ==
    /\ out' = rec
    /\ procs' = [procs EXCEPT ![p] = LockIdle]

\* the configuration calls start with their lock operation
ConfigCall(p, op, arg) ==
    /\ procs[p].pc = "idle"
    /\ procs' = [procs EXCEPT ![p] =
                    [LockIdle EXCEPT
                        !.pc = IF op = "IsStrictMode" THEN "RLock" ELSE "Lock",
                        !.op = op, !.arg = arg,
                        !.mu = IF op = "SetLogger" THEN "loggerFuncMu"
                               ELSE "strictModeMu"]]
    /\ UNCHANGED <<euid, hw, strictMode, loggerFunc, store, cache, out, hist,
                   login, disk, locks>>

\* GenerateReMachID(salt), up to the strict-mode check of the resolver: a
\* call that does not reach the check returns here
GenerateCall(p, salt) ==
    /\ procs[p].pc = "idle"
    /\ IF NeedsFallbackTier
       THEN /\ procs' = [procs EXCEPT ![p] =
                            [LockIdle EXCEPT !.pc = "RLock",
                                             !.op = "GenerateReMachID",
                                             !.arg = salt]]
            /\ UNCHANGED out
       ELSE \E r \in GenerateReMachIDResults(euid, hw, FALSE, store, salt) :
                LockReturn(p, LockCallRecord("GenerateReMachID", salt, r.id,
                                             FALSE, r.err))
    /\ UNCHANGED <<euid, hw, strictMode, loggerFunc, store, cache, hist,
                   login, disk, locks>>

\* mu.Lock(), first half
DoLock(p) ==
    /\ procs[p].pc = "Lock"
    /\ CanAnnounce(locks[procs[p].mu])
    /\ locks' = [locks EXCEPT ![procs[p].mu] = LockAnnounce(@, p)]
    /\ procs' = [procs EXCEPT ![p].pc = "LockWait"]
    /\ UNCHANGED <<euid, hw, strictMode, loggerFunc, store, cache, out, hist,
                   login, disk>>

\* mu.Lock(), second half
DoLockWait(p) ==
    /\ procs[p].pc = "LockWait"
    /\ CanAcquire(locks[procs[p].mu], p)
    /\ locks' = [locks EXCEPT ![procs[p].mu] = LockAcquire(@, p)]
    /\ procs' = [procs EXCEPT ![p].pc = "assign"]
    /\ UNCHANGED <<euid, hw, strictMode, loggerFunc, store, cache, out, hist,
                   login, disk>>

\* strictMode = enabled, or loggerFunc = logger (a no-op for nil)
DoAssign(p) ==
    /\ procs[p].pc = "assign"
    /\ IF procs[p].op = "SetStrictMode"
       THEN strictMode' = (procs[p].arg = "true") /\ UNCHANGED loggerFunc
       ELSE /\ loggerFunc' = IF procs[p].arg = NilLogger THEN Noop
                             ELSE procs[p].arg
            /\ UNCHANGED strictMode
    /\ procs' = [procs EXCEPT ![p].pc = "Unlock"]
    /\ UNCHANGED <<euid, hw, store, cache, out, hist, login, disk, locks>>

\* the deferred mu.Unlock(), and the return of the call
DoUnlock(p) ==
    /\ procs[p].pc = "Unlock"
    /\ locks' = [locks EXCEPT ![procs[p].mu] = Unlock(@, p)]
    /\ LockReturn(p, LockCallRecord(procs[p].op, procs[p].arg, EmptyStr,
                                    procs[p].arg = "true", Nil))
    /\ UNCHANGED <<euid, hw, strictMode, loggerFunc, store, cache, hist,
                   login, disk>>

\* mu.RLock(): the process is a reader or blocked
DoRLock(p) ==
    /\ procs[p].pc = "RLock"
    /\ locks' = [locks EXCEPT ![procs[p].mu] = RLock(@, p)]
    /\ procs' = [procs EXCEPT ![p].pc = "RLockWait"]
    /\ UNCHANGED <<euid, hw, strictMode, loggerFunc, store, cache, out, hist,
                   login, disk>>

\* mu.RLock() returns once the process is a reader
DoRLockWait(p) ==
    /\ procs[p].pc = "RLockWait"
    /\ p \in locks[procs[p].mu].readers
    /\ procs' = [procs EXCEPT ![p].pc = IF procs[p].mu = "strictModeMu"
                                        THEN "read" ELSE "sink"]
    /\ UNCHANGED <<euid, hw, strictMode, loggerFunc, store, cache, out, hist,
                   login, disk, locks>>

\* isStrict := strictMode
DoRead(p) ==
    /\ procs[p].pc = "read"
    /\ procs' = [procs EXCEPT ![p].pc = "RUnlock", ![p].val = strictMode]
    /\ UNCHANGED <<euid, hw, strictMode, loggerFunc, store, cache, out, hist,
                   login, disk, locks>>

\* loggerFunc(msg): the sink takes the message and returns
DoSink(p) ==
    /\ procs[p].pc = "sink"
    /\ procs' = [procs EXCEPT ![p].pc = "RUnlock"]
    /\ UNCHANGED <<euid, hw, strictMode, loggerFunc, store, cache, out, hist,
                   login, disk, locks>>

\* mu.RUnlock() and what follows it up to the next lock operation:
\* IsStrictMode returns the flag; the resolver returns the strict-mode
\* error, logs its next warning or goes on to the token files and returns
DoRUnlock(p) ==
    /\ procs[p].pc = "RUnlock"
    /\ locks' = [locks EXCEPT ![procs[p].mu] = RUnlock(@, p)]
    /\ IF procs[p].op = "IsStrictMode"
       THEN /\ LockReturn(p, LockCallRecord("IsStrictMode", EmptyStr,
                                            EmptyStr, procs[p].val, Nil))
            /\ UNCHANGED store
       ELSE IF procs[p].mu = "strictModeMu" /\ ~procs[p].val
       THEN /\ procs' = [procs EXCEPT ![p].pc = "RLock",
                                      ![p].mu = "loggerFuncMu",
                                      ![p].n = Len(FallbackWarnings)]
            /\ UNCHANGED <<out, store>>
       ELSE IF procs[p].mu = "loggerFuncMu" /\ procs[p].n > 1
       THEN /\ procs' = [procs EXCEPT ![p].pc = "RLock", ![p].n = @ - 1]
            /\ UNCHANGED <<out, store>>
       ELSE \E r \in GenerateReMachIDResults(euid, hw, procs[p].val, store,
                                             procs[p].arg) :
                /\ store' = r.res.store
                /\ LockReturn(p, LockCallRecord("GenerateReMachID",
                                                procs[p].arg, r.id, FALSE,
                                                r.err))
    /\ UNCHANGED <<euid, hw, strictMode, loggerFunc, cache, hist, login, disk>>

\* the steps of process p inside a call
LockStep(p) ==
    \/ DoLock(p)
    \/ DoLockWait(p)
    \/ DoAssign(p)
    \/ DoUnlock(p)
    \/ DoRLock(p)
    \/ DoRLockWait(p)
    \/ DoRead(p)
    \/ DoSink(p)
    \/ DoRUnlock(p)

InitLocks ==
    /\ euid = Root
    /\ hw \in {Machine(AllSysfs("value"), TRUE, AllDmi("value")),
                Machine(AllSysfs("absent"), FALSE, AllDmi("absent"))}
    /\ strictMode = FALSE
    /\ loggerFunc = Stdout
    /\ login = DefaultLogin
    /\ disk = DefaultDisk
    /\ locks = NoLocks
    /\ store = ProvisionedStore
    /\ cache = NoCache
    /\ out = NoCall
    /\ hist = NoHist
    /\ procs = [p \in LockProcs |-> LockIdle]

NextLocks ==
    \/ \E p \in LockProcs, b \in {"true", "false"} :
          ConfigCall(p, "SetStrictMode", b)
    \/ \E p \in LockProcs : ConfigCall(p, "IsStrictMode", EmptyStr)
    \/ \E p \in LockProcs, logger \in {NilLogger, "f"} :
          ConfigCall(p, "SetLogger", logger)
    \/ \E p \in LockProcs : GenerateCall(p, <<"a">>)
    \/ \E p \in LockProcs : LockStep(p)

SpecLocks == InitLocks /\ [][NextLocks]_vars

\* Fair scheduling: the Go scheduler runs every goroutine that can take a
\* step, and the mutex that serialises writers hands itself to a writer
\* that has waited (its starvation mode), so a writer that can take it
\* again and again does take it.
SpecLocksFair ==
    /\ SpecLocks
    /\ \A p \in LockProcs : WF_vars(LockStep(p)) /\ SF_vars(DoLock(p))

(***************************************************************************)
(* Properties of the resolution and generation operations (under Spec).    *)
(***************************************************************************)
\* the values the hardware channels of the model can deliver, and the
\* tokens the provisioner can generate
HardwareValues == {SourceValue(n) : n \in SysfsFiles \cup DmiKeywords}
TokenValues == {RandomHexTable[k] : k \in RandomChoices}

\* every sysfs file and every dmidecode keyword of the machine reads empty
NoHardware ==
    /\ \A f \in SysfsFiles : readSysfsFile(hw, f) = EmptyStr
    /\ \A k \in DmiKeywords : getDmidecodeValue(hw, k).val = EmptyStr

\* C1 (fallback exclusivity): whenever the resolver reports usedFallback, the
\* serial and the uuid it returns are the two tokens the provisioning call
\* of that same resolution returned, and neither is a hardware value;
\* whenever a returned value is a hardware value, usedFallback is false and
\* no returned value is a fallback token.
C1_FallbackExclusivity ==
    out.res.called =>
        /\ out.res.usedFallback =>
              /\ out.res.ens.called /\ out.res.ens.err = Nil
              /\ out.res.serial = out.res.ens.serial
              /\ out.res.uuid = out.res.ens.uuid
              /\ out.res.serial \in TokenValues /\ out.res.uuid \in TokenValues
        /\ (out.res.serial \in HardwareValues \/ out.res.uuid \in HardwareValues) =>
              /\ ~out.res.usedFallback
              /\ ~out.res.ens.called
              /\ out.res.serial \notin TokenValues
              /\ out.res.uuid \notin TokenValues

\* a resolution that fell back and returned two tokens
C1_Witness ==
    /\ out.res.called /\ out.res.usedFallback
    /\ out.res.serial \in TokenValues /\ out.res.uuid \in TokenValues

\* C2 (strict-mode gating): a resolution that runs with strict mode enabled
\* on a machine whose every sysfs and dmidecode candidate is empty fails
\* with ErrStrictModeNoHardwareID, makes no provisioning call, changes
\* neither the fallback directory nor a token file, and logs no warning.
C2_StrictModeGating ==
    (out.res.called /\ out.strict /\ NoHardware) =>
        /\ out.res.err = ErrStrictModeNoHardwareID
        /\ IsErr(out.err, ErrStrictModeNoHardwareID)
        /\ out.id = EmptyStr
        /\ ~out.res.ens.called
        /\ out.changed = {}
        /\ out.warns = << >>

\* a strict-mode resolution on a machine without hardware identifiers whose
\* fallback directory does not exist
C2_Witness ==
    /\ out.res.called /\ out.strict /\ NoHardware
    /\ ~store.dir.exists

\* C3 (determinism): of two successive successful GenerateReMachID calls with
\* the same salt on the same machine, the second returns the id of the first.
C3_Determinism ==
    [][(/\ out.op = "GenerateReMachID" /\ out.err = Nil
        /\ out'.op = "GenerateReMachID" /\ out'.err = Nil
        /\ out'.salt = out.salt)
       => out'.id = out.id]_vars

\* a second successful GenerateReMachID call with the salt of the first, on a
\* machine that resolves through the fallback tier
C3_Witness ==
    /\ out.op = "GenerateReMachID" /\ out.err = Nil /\ out.again
    /\ out.res.usedFallback

\* C4 (token immutability under any interleaving), under SpecProv: every
\* provisioning call that returns successfully returns the serial token and
\* the uuid token that the first successful provisioning call since the last
\* ClearFallbackFiles returned, calls that overlapped that first call
\* included.
C4_TokenImmutability ==
    (/\ out.op = "ensureFallbackFiles" /\ out.err = Nil
     /\ hist.prov.set) =>
        /\ out.res.ens.serial = hist.prov.serial
        /\ out.res.ens.uuid = hist.prov.uuid

\* C5 (fallback idempotence): a successful provisioning call made after an
\* earlier successful one, ClearFallbackFiles not having run in between,
\* returns the tokens of the earlier call, generates none and changes no
\* file; the first provisioning call after a successful ClearFallbackFiles,
\* if it succeeds, returns two tokens it generated itself.
C5_FallbackIdempotence ==
    [][(out'.res.ens.called /\ out'.res.ens.err = Nil) =>
        /\ hist.prov.set =>
              /\ out'.res.ens.serial = hist.prov.serial
              /\ out'.res.ens.uuid = hist.prov.uuid
              /\ out'.res.ens.generated = {}
              /\ store' = store
        /\ hist.cleared =>
              /\ out'.res.ens.generated = TokenFiles
              /\ out'.res.ens.serial \in TokenValues
              /\ out'.res.ens.uuid \in TokenValues]_vars

\* a second successive successful provisioning, the tokens having been
\* generated by the first provisioning call after a successful clear
C5_Witness ==
    /\ out.res.ens.called /\ out.res.ens.err = Nil /\ out.again
    /\ out.res.ens.generated = {}
    /\ hist.prov.set /\ hist.prov.afterClear

\* C6 (privilege gate): GenerateReMachID, GenerateReMachIDWithInfo and
\* ClearFallbackFiles called by a process that is not root return ErrNotRoot
\* and an empty id, consult no hardware source, log no warning and change
\* neither the fallback directory nor a token file.
C6_PrivilegeGate ==
    (/\ out.op \in {"GenerateReMachID", "GenerateReMachIDWithInfo",
                    "ClearFallbackFiles"}
     /\ out.euid # Root) =>
        /\ out.err = ErrNotRoot
        /\ out.id = EmptyStr /\ ~out.flag
        /\ ~out.res.called /\ out.res.reads = << >>
        /\ out.warns = << >>
        /\ out.changed = {}

\* ClearFallbackFiles refused to a user while both token files exist
C6_Witness ==
    /\ out.op = "ClearFallbackFiles" /\ out.euid # Root
    /\ \A f \in TokenFiles : store.files[f].exists

C9_EmptySalt ==
    /\ (out.op = "GenerateEMachID" /\ out.salt = EmptyStr) =>
          (out.err = ErrEmptySalt /\ out.id = EmptyStr)
    /\ (out.op = "GenerateBoth" /\ out.salt = EmptyStr) =>
          /\ out.err # ErrEmptySalt /\ IsErr(out.err, ErrEmptySalt)
          /\ ~IsErr(out.err, ErrNotRoot)
          /\ out.id = EmptyStr /\ out.eid = EmptyStr
          /\ ~out.res.called /\ out.res.reads = << >>
          /\ out.changed = {}
          /\ out.warns = << >>

\* GenerateBoth("") by root, strict mode off, on a machine without hardware
\* identifiers and without fallback files: the call that would have
\* provisioned them had the salt been accepted
C9_Witness ==
    /\ out.op = "GenerateBoth" /\ out.salt = EmptyStr
    /\ out.euid = Root /\ ~out.strict /\ NoHardware
    /\ store = EmptyStore

\* C10 (cache hit), under SpecCache: whenever the cache file holds a record
\* with a non-empty ReMachID whose Salt is empty or equals the request salt,
\* GetOrGenerateReMachID returns that ReMachID with fromCache = true and a
\* nil error, whoever calls it, without invoking the resolver, without
\* logging, and without calling SaveCachedIDs or changing the cache file or
\* the fallback files.
C10_CacheHit ==
    [][(/\ out'.op = "GetOrGenerateReMachID"
        /\ LoadCachedIDsResult(cache).err = Nil
        /\ LoadCachedIDsResult(cache).cache.ReMachID # EmptyStr
        /\ \/ LoadCachedIDsResult(cache).cache.Salt = EmptyStr
           \/ LoadCachedIDsResult(cache).cache.Salt = out'.salt)
       => /\ out'.id = LoadCachedIDsResult(cache).cache.ReMachID
          /\ out'.flag
          /\ out'.err = Nil
          /\ ~out'.res.called /\ out'.res.reads = << >>
          /\ out'.warns = << >>
          /\ ~out'.saved
          /\ cache' = cache
          /\ store' = store]_vars

\* a user served from a record stored without salt, the request salt
\* being non-empty
C10_Witness ==
    /\ out.op = "GetOrGenerateReMachID" /\ out.flag
    /\ out.euid # Root
    /\ out.salt # EmptyStr
    /\ LoadCachedIDsResult(cache).cache.Salt = EmptyStr

(***************************************************************************)
(* Properties of the caching API, continued.                               *)
(***************************************************************************)
\* the call made in this step is a GetOrGenerateReMachID that finds a
\* loadable record with a non-empty ReMachID and a non-empty Salt that is
\* not the request salt
SaltMismatchStep ==
    /\ out'.op = "GetOrGenerateReMachID"
    /\ LoadCachedIDsResult(cache).err = Nil
    /\ LoadCachedIDsResult(cache).cache.ReMachID # EmptyStr
    /\ LoadCachedIDsResult(cache).cache.Salt # EmptyStr
    /\ LoadCachedIDsResult(cache).cache.Salt # out'.salt

\* the warnings of a call, as a set
Warned(rec) == {rec.warns[i] : i \in 1..Len(rec.warns)}

RegenerateAndSaveStep ==
    /\ out'.op = "GetOrGenerateReMachID"
    /\ out'.err = Nil /\ ~out'.flag
    /\ out'.saved /\ out'.saveErr = Nil
    /\ LoadCachedIDsResult(cache).err = Nil

\* C12, under SpecCacheOps: after GetOrGenerateReMachID regenerates and
\* saves, the ephemeral id and the action counter of the persisted record
\* equal their values in the prior record, whatever the prior record holds
\* (an empty ephemeral id with a non-zero action counter included).
C12_RegenerationPreserves ==
    [][RegenerateAndSaveStep =>
        /\ LoadCachedIDsResult(cache').err = Nil
        /\ LoadCachedIDsResult(cache').cache.EMachID
              = LoadCachedIDsResult(cache).cache.EMachID
        /\ LoadCachedIDsResult(cache').cache.ActionCount
              = LoadCachedIDsResult(cache).cache.ActionCount]_vars

\* a call of one of the operations that compute a fresh id, whose
\* SaveCachedIDs failed
SaveFailedStep(op) == out'.op = op /\ out'.saved /\ out'.saveErr # Nil

FreshIdOps == {"GetOrGenerateReMachID", "GetOrGenerateEMachID", "RotateEMachID"}

\* C13 as stated, under SpecCacheOps: when saving the cache fails in
\* GetOrGenerateReMachID, GetOrGenerateEMachID or RotateEMachID, the caller
\* receives the computed id with a nil error.
C13_SaveFailureNeverFatal ==
    [][\A op \in FreshIdOps :
          SaveFailedStep(op) => out'.err = Nil /\ out'.id # EmptyStr]_vars

\* C13 (amended), under SpecCacheOps: when saving the cache fails,
\* GetOrGenerateReMachID and GetOrGenerateEMachID return the id they
\* computed with a nil error and report the failure through the warning
\* sink only; RotateEMachID logs nothing and returns an empty id with the
\* save error wrapped as "failed to save rotated eMachID".
C13_SaveFailure ==
    [][ /\ SaveFailedStep("GetOrGenerateReMachID") =>
             /\ out'.err = Nil
             /\ \E g \in GenerateReMachIDResults(euid, hw, strictMode, store,
                                                 out'.salt) :
                   g.err = Nil /\ g.id = out'.id
             /\ WarnCacheReMachID \in Warned(out')
        /\ SaveFailedStep("GetOrGenerateEMachID") =>
             /\ out'.err = Nil
             /\ \E t \in Instants :
                   /\ GenerateEMachIDResult(out'.salt, t).err = Nil
                   /\ GenerateEMachIDResult(out'.salt, t).id = out'.id
             /\ WarnCacheEMachID \in Warned(out')
        /\ SaveFailedStep("RotateEMachID") =>
             /\ out'.id = EmptyStr
             /\ out'.err = Wrap("failed to save rotated eMachID", out'.saveErr)
             /\ out'.warns = << >>]_vars

\* RotateEMachID has met a failed save: it returned the error and no id,
\* and the cache file holds no loadable record
C13_Witness ==
    /\ out.saved /\ out.saveErr # Nil
    /\ out.op = "RotateEMachID"
    /\ out.id = EmptyStr /\ out.err # Nil
    /\ LoadCachedIDsResult(cache).err # Nil

(***************************************************************************)
(* Properties of the resolver, continued.                                  *)
(***************************************************************************)
\* C14, under Spec: a resolution on a machine where dmidecode is not
\* installed and no sysfs or dmidecode candidate yields a value returns
\* ErrDmidecodeNotFound (not ErrNoHardwareID, not the strict-mode error),
\* in strict mode and out of it.
C14_CommandNotFound ==
    (out.res.called /\ ~hw.installed /\ NoHardware) =>
        /\ out.res.err = ErrDmidecodeNotFound
        /\ IsErr(out.err, ErrDmidecodeNotFound)

\* the first non-empty value of a list of candidates, "" if there is none
RECURSIVE FirstValue(_)
FirstValue(vals) ==
    IF vals = << >> THEN EmptyStr
    ELSE IF Head(vals) # EmptyStr THEN Head(vals)
    ELSE FirstValue(Tail(vals))

\* the candidates of each field in the order the resolver tries them
SerialCandidates ==
    <<readSysfsFile(hw, sysfsPaths.productSerial),
      readSysfsFile(hw, sysfsPaths.chassisSerial),
      readSysfsFile(hw, sysfsPaths.boardSerial),
      getDmidecodeValue(hw, "system-serial-number").val,
      getDmidecodeValue(hw, "chassis-serial-number").val,
      getDmidecodeValue(hw, "baseboard-serial-number").val>>
UUIDCandidates ==
    <<readSysfsFile(hw, sysfsPaths.productUUID),
      getDmidecodeValue(hw, "system-uuid").val>>

\* C15 (partial result accepted), under Spec: a resolution on a machine
\* where some sysfs or dmidecode candidate yields a value returns the
\* first value of each field's candidates (the other field possibly empty)
\* with usedFallback = false and a nil error, in strict mode and out of it,
\* logs no warning and neither reads nor creates a fallback file.
C15_PartialResult ==
    (out.res.called /\ ~NoHardware) =>
        /\ out.res.err = Nil
        /\ ~out.res.usedFallback
        /\ out.res.serial = FirstValue(SerialCandidates)
        /\ out.res.uuid = FirstValue(UUIDCandidates)
        /\ out.res.serial # EmptyStr \/ out.res.uuid # EmptyStr
        /\ out.res.warns = << >> /\ out.warns = << >>
        /\ ~out.res.ens.called
        /\ out.changed = {}

\* a strict-mode resolution that returned a serial and an empty uuid
C15_Witness ==
    /\ out.res.called /\ out.strict
    /\ out.res.err = Nil
    /\ out.res.serial \in HardwareValues /\ out.res.uuid = EmptyStr

(***************************************************************************)
(* The fallback scenario: no hardware identifiers, strict mode off.        *)
(***************************************************************************)
\* the operations that generate a reconstructable id
ReMachIDOps == {"GenerateReMachID", "GenerateReMachIDWithInfo", "GenerateBoth"}

\* a string of n lower-case hex digits
IsHex(str, n) ==
    /\ Len(str) = n
    /\ \A i \in 1..Len(str) : \E d \in 1..Len(HexDigits) : str[i] = HexDigits[d]

\* a privileged generation call that reaches the resolver with no hardware
\* identifiers, strict mode off and no token file present
FirstFallbackStep ==
    /\ out'.op \in ReMachIDOps /\ out'.res.called
    /\ NoHardware /\ ~strictMode
    /\ \A f \in TokenFiles : ~store.files[f].exists

\* the three warnings went through the sink, in order
ThreeWarnings(rec) == rec.res.warns = FallbackWarnings /\ rec.warns = FallbackWarnings

\* the fallback directory is owner-only and holds the two token files, each
\* a 128-character hex string with owner-only permissions
TwoTokenFiles(fb) ==
    /\ fb.dir.exists /\ fb.dir.mode = DirPerm
    /\ \A f \in TokenFiles :
          /\ fb.files[f].exists
          /\ fb.files[f].mode = FilePerm
          /\ IsHex(fb.files[f].data, 2 * fallbackDataLength)

\* C16 (first fallback call), under Spec: a privileged generation call with
\* no hardware identifiers, strict mode off and no token file present logs
\* exactly the three warnings in order and then provisions.  The operating
\* system failing no call of the provisioning, it creates exactly the two
\* token files, each 128 hex characters with mode 0600 in a directory of
\* mode 0700, and returns usedFallback = true with the two tokens; a
\* failing system call makes it return ErrFallbackFileCreation after the
\* same three warnings.
C16_FirstFallbackCall ==
    [][FirstFallbackStep =>
        /\ ThreeWarnings(out')
        /\ out'.res.ens.called
        /\ out'.res.ens.err = Nil =>
              /\ out'.res.ens.generated = TokenFiles
              /\ TwoTokenFiles(store')
              /\ out'.res.usedFallback /\ out'.res.err = Nil
              /\ out'.op = "GenerateReMachIDWithInfo" /\ out'.err = Nil
                    => out'.flag
              /\ out'.res.serial = store'.files[fallbackSerialFile].data
              /\ out'.res.uuid = store'.files[fallbackUUIDFile].data
        /\ out'.res.ens.err # Nil =>
              /\ IsErr(out'.res.ens.err, ErrFallbackFileCreation)
              /\ out'.res.err = out'.res.ens.err
              /\ IsErr(out'.err, ErrFallbackFileCreation)
              /\ ~out'.res.usedFallback /\ ~out'.flag
              /\ out'.id = EmptyStr]_vars

\* a first fallback call has created the directory and both token files
C16_Witness ==
    /\ out.op \in ReMachIDOps /\ out.res.called /\ out.res.usedFallback
    /\ out.res.ens.generated = TokenFiles
    /\ out.changed = TokenFiles \cup {"dir"}
    /\ ThreeWarnings(out)
    /\ TwoTokenFiles(store)

\* a privileged generation call with no hardware identifiers and strict
\* mode off that follows a successful fallback call with the same salt
SecondFallbackStep ==
    /\ out.op \in ReMachIDOps /\ out.res.called /\ out.res.usedFallback
    /\ out.err = Nil
    /\ out'.op \in ReMachIDOps /\ out'.res.called
    /\ out'.salt = out.salt
    /\ NoHardware /\ ~strictMode

\* C17 as stated, under Spec: the second fallback call with the same salt
\* returns the identical id, logs no warning and writes no file.
C17_SecondCallSilent ==
    [][SecondFallbackStep =>
        /\ out'.err = Nil /\ out'.id = out.id
        /\ out'.warns = << >>
        /\ out'.changed = {}]_vars

\* C17 (amended), under Spec: the second fallback call with the same salt
\* returns the identical id with usedFallback = true, creates no token and
\* leaves the fallback directory and both token files as they were; it logs
\* the same three warnings again, in the same order.
C17_SecondCall ==
    [][SecondFallbackStep =>
        /\ out'.err = Nil /\ out'.id = out.id
        /\ out'.res.usedFallback
        /\ ThreeWarnings(out')
        /\ out'.res.ens.generated = {}
        /\ out'.changed = {} /\ store' = store]_vars

\* the same operation called a second time with the same salt on the
\* tokens the first call left: three warnings again, nothing written
C17_Witness ==
    /\ out.op \in ReMachIDOps /\ out.again
    /\ out.res.called /\ out.res.usedFallback
    /\ out.res.ens.generated = {} /\ out.changed = {}
    /\ ThreeWarnings(out)

(***************************************************************************)
(* Properties of the digests.                                              *)
(***************************************************************************)
\* C18 (salt sensitivity), under Spec: two successive successful
\* GenerateReMachID calls that resolved the same serial and the same uuid
\* (hardware values or fallback tokens) and were given different salts, one
\* of them possibly empty, return different ids.
C18_SaltSensitivity ==
    [][(/\ out.op = "GenerateReMachID" /\ out.err = Nil
        /\ out'.op = "GenerateReMachID" /\ out'.err = Nil
        /\ out'.res.serial = out.res.serial
        /\ out'.res.uuid = out.res.uuid
        /\ out'.salt # out.salt)
       => out'.id # out.id]_vars

\* a successful GenerateReMachID with the empty salt on the tokens an
\* earlier call created, the call before it not being a successful
\* GenerateReMachID with the empty salt
C18_Witness ==
    /\ out.op = "GenerateReMachID" /\ out.err = Nil
    /\ out.salt = EmptyStr /\ ~out.again
    /\ out.res.usedFallback /\ out.res.ens.generated = {}
    /\ out.id = hashData(<<hist.prov.serial, hist.prov.uuid>>)

\* C19 (digest determinism and sensitivity), under SpecHash: of two
\* successive hashData calls, the second returns the digest of the first if
\* its list of parts is the same, and a different digest if the lists
\* differ in the content or in the order of their parts, ("ab", "c") and
\* ("a", "bc") included.
C19_DigestSensitivity ==
    [][(out.op = "hashData" /\ out'.op = "hashData") =>
          ((out'.data = out.data) <=> (out'.id = out.id))]_vars

\* C20 (ephemeral uniqueness), under Spec: every id a successful
\* GenerateEMachID call returns is 64 hex characters long, and of two
\* successive successful GenerateEMachID calls with the same salt that read
\* different nanosecond timestamps, the second returns an id different from
\* the first's.
C20_EphemeralUniqueness ==
    [][(out'.op = "GenerateEMachID" /\ out'.err = Nil) =>
          /\ IsHex(out'.id, 2 * Sha256Size)
          /\ (/\ out.op = "GenerateEMachID" /\ out.err = Nil
              /\ out'.salt = out.salt
              /\ out'.nano # out.nano)
             => out'.id # out.id]_vars

\* a successful GenerateEMachID at the last instant of the clock, the call
\* before it a successful GenerateEMachID with the same salt
C20_Witness ==
    /\ out.op = "GenerateEMachID" /\ out.err = Nil /\ out.again
    /\ out.nano = UnixNano(MaxTime)
    /\ IsHex(out.id, 2 * Sha256Size)

(***************************************************************************)
(* Properties of the hardware channels (under SpecResolve).                *)
(***************************************************************************)
Sources == SysfsFiles \cup DmiKeywords
Placeholders == {PlaceholderNone, PlaceholderNotSpecified, PlaceholderOEM}

\* what the machine's source n delivers
RawOf(m, n) == IF n \in SysfsFiles THEN m.sysfs[n] ELSE m.dmidecode[n]

\* the source delivers a placeholder, white space around it or not
HoldsPlaceholder(m, n) ==
    RawOf(m, n).ok /\ TrimSpace(RawOf(m, n).data) \in Placeholders

\* the machine with source n returning nothing
WithNothing(m, n) ==
    IF n \in SysfsFiles
    THEN [m EXCEPT !.sysfs[n] = [ok |-> TRUE, data |-> << >>]]
    ELSE [m EXCEPT !.dmidecode[n] = [ok |-> TRUE, data |-> << >>]]

\* the call that has just returned did what getHardwareIdentifiers can do
\* on machine m: the same values, flag, error, sources consulted, warnings
\* and provisioning, and the same fallback files afterwards
ResolvesAsOn(m) ==
    \E r \in getHardwareIdentifiers(m, strictMode, store) :
        OutcomeView(r) = out'.res /\ r.store = store'

\* C21 (placeholder filtering): for every sysfs file and every dmidecode
\* keyword that holds "None", "Not Specified" or "To Be Filled By O.E.M.",
\* a resolution has the outcome it has on the machine where that source
\* returns nothing; likewise for every sysfs file that cannot be read, and
\* the resolver's error is never one of reading a sysfs file.
C21_PlaceholderFiltering ==
    [][out'.res.called =>
        /\ \A n \in Sources : HoldsPlaceholder(hw, n) => ResolvesAsOn(WithNothing(hw, n))
        /\ \A f \in SysfsFiles : ~hw.sysfs[f].ok => ResolvesAsOn(WithNothing(hw, f))
        /\ \/ out'.res.err \in {Nil, ErrStrictModeNoHardwareID}
           \/ IsErr(out'.res.err, ErrFallbackFileCreation)]_vars

\* a resolution that got its serial from dmidecode past sysfs files that
\* hold a placeholder
C21_Witness ==
    /\ out.res.called /\ out.res.err = Nil
    /\ \A f \in SysfsFiles : HoldsPlaceholder(hw, f)
    /\ out.res.serial = SourceValue("chassis-serial-number")

\* the value the machine's source n yields
ValueOf(n) ==
    IF n \in SysfsFiles THEN readSysfsFile(hw, n)
    ELSE getDmidecodeValue(hw, n).val

\* the position of the first candidate that yields a value, the last
\* position if none does
FirstHit(order) ==
    IF \E p \in 1..Len(order) : ValueOf(order[p]) # EmptyStr
    THEN CHOOSE p \in 1..Len(order) :
            /\ ValueOf(order[p]) # EmptyStr
            /\ \A q \in 1..(p - 1) : ValueOf(order[q]) = EmptyStr
    ELSE Len(order)

\* the candidates of a field the last call consulted, in the order it did
ConsultedOf(order) ==
    LET OfField(n) == \E p \in 1..Len(order) : order[p] = n
    IN  SelectSeq(out.res.reads, OfField)

\* C22 (tier ordering), under SpecResolve: a resolution consults the serial
\* candidates in the order product_serial, chassis_serial, board_serial,
\* system-serial-number, chassis-serial-number, baseboard-serial-number and
\* the uuid candidates in the order product_uuid, system-uuid, each up to
\* the first that yields a value and none after it, so that dmidecode is
\* asked for a field only when every sysfs candidate of the field was
\* empty; every sysfs read precedes every dmidecode lookup; and a
\* resolution from hardware returns for each field the value of that first
\* candidate.
C22_TierOrdering ==
    out.res.called =>
        /\ ConsultedOf(SerialSources)
              = SubSeq(SerialSources, 1, FirstHit(SerialSources))
        /\ ConsultedOf(UUIDSources) = SubSeq(UUIDSources, 1, FirstHit(UUIDSources))
        /\ Len(out.res.reads)
              = Len(ConsultedOf(SerialSources)) + Len(ConsultedOf(UUIDSources))
        /\ \A a, b \in 1..Len(out.res.reads) :
              (out.res.reads[a] \in DmiKeywords /\ out.res.reads[b] \in SysfsFiles)
                 => b < a
        /\ (out.res.err = Nil /\ ~out.res.usedFallback) =>
              /\ out.res.serial = ValueOf(SerialSources[FirstHit(SerialSources)])
              /\ out.res.uuid = ValueOf(UUIDSources[FirstHit(UUIDSources)])

\* a resolution that took the serial from the second dmidecode keyword and
\* the uuid from sysfs: five serial candidates and one uuid candidate read
C22_Witness ==
    /\ out.res.called /\ out.res.err = Nil
    /\ out.res.serial = SourceValue("chassis-serial-number")
    /\ out.res.uuid = SourceValue(sysfsPaths.productUUID)
    /\ Len(out.res.reads) = Len(SerialSources)

(***************************************************************************)
(* Properties of the token files (under SpecTokens).                       *)
(***************************************************************************)
\* C23 (ClearFallbackFiles), under SpecTokens: a call by root fails only
\* because the operating system refused to remove a token file that was
\* present, so it succeeds when both token files are absent and an absent
\* file is never the cause of an error; after every successful call by root
\* both token files are absent and HasFallbackFiles is false for every
\* caller; and when the directory holds something else the call leaves the
\* directory in place and still returns a nil error.
C23_ClearFallbackFiles ==
    [][(out'.op = "ClearFallbackFiles" /\ euid = Root) =>
          /\ (\A f \in TokenFiles : ~store.files[f].exists) => out'.err = Nil
          /\ out'.err # Nil =>
                /\ IsErr(out'.err, ErrOS)
                /\ \E f \in TokenFiles :
                      store.files[f].exists /\ store'.files[f] = store.files[f]
          /\ out'.err = Nil =>
                /\ \A f \in TokenFiles : ~store'.files[f].exists
                /\ \A u \in Euids : ~HasFallbackFilesResult(u, store')
                /\ store.dir.foreign => store'.dir = store.dir]_vars

\* root cleared successfully while only the serial token file existed, in a
\* directory that holds a file of someone else and so stays
C23_Witness ==
    /\ out.op = "ClearFallbackFiles" /\ out.euid = Root /\ out.err = Nil
    /\ out.changed = {fallbackSerialFile}
    /\ store.dir.exists /\ store.dir.foreign

\* C24 (HasFallbackFiles): the call returns true exactly when both token
\* files are present.
C24_HasFallbackFiles ==
    out.op = "HasFallbackFiles" =>
        (out.flag <=> \A f \in TokenFiles : store.files[f].exists)

(***************************************************************************)
(* Properties of the cache record (under SpecCacheOps).                    *)
(***************************************************************************)
\* C25 (IncrementActionCount), under SpecCacheOps: a call that can load no
\* cache record (no file, or a file that is not a JSON document) returns
\* count 0 with the load error, does not call SaveCachedIDs and leaves the
\* cache file as it was; a call that loads a record saves it with the
\* counter one greater and, unless the operating system fails that save
\* (then it returns 0 and the save error), the file then holds the loaded
\* record with ActionCount one greater and every other field as before,
\* and the call returns that new counter.
C25_IncrementActionCount ==
    [][out'.op = "IncrementActionCount" =>
          LET l == LoadCachedIDsResult(cache)
              after == LoadCachedIDsResult(cache')
          IN  /\ l.err # Nil =>
                    /\ out'.err = l.err /\ out'.info.ActionCount = 0
                    /\ ~out'.saved /\ cache' = cache
              /\ l.err = Nil =>
                    /\ out'.saved
                    /\ \/ /\ out'.err = Nil /\ after.err = Nil
                          /\ after.cache
                                = [l.cache EXCEPT !.ActionCount = l.cache.ActionCount + 1]
                          /\ out'.info.ActionCount = l.cache.ActionCount + 1
                       \/ /\ out'.err = ErrOS /\ out'.saveErr = ErrOS
                          /\ out'.info.ActionCount = 0]_vars

\* the second of two successful calls: the counter raised from 0 to 2 in a
\* record that kept its reconstructable id
C25_Witness ==
    /\ out.op = "IncrementActionCount" /\ out.err = Nil
    /\ out.info.ActionCount = 2
    /\ LoadCachedIDsResult(cache).cache.ActionCount = 2
    /\ LoadCachedIDsResult(cache).cache.ReMachID # EmptyStr

\* C26 (cache round-trip), under SpecCacheFile: a LoadCachedIDs that
\* follows a successful SaveCachedIDs returns the saved record, equal in all
\* five fields; a LoadCachedIDs that follows a successful ClearCache
\* reports absence; and ClearCache succeeds when there is no cache file.
C26_CacheRoundTrip ==
    [][/\ (out.op = "SaveCachedIDs" /\ out.err = Nil /\ out'.op = "LoadCachedIDs")
             => (out'.err = Nil /\ out'.info = out.info)
       /\ (out.op = "ClearCache" /\ out.err = Nil /\ out'.op = "LoadCachedIDs")
             => out'.err = ErrNotExist
       /\ (out'.op = "ClearCache" /\ ~cache.exists) => out'.err = Nil]_vars

(***************************************************************************)
(* Properties of failed calls (under SpecFailure).                         *)
(***************************************************************************)
IdOps ==
    {"GenerateEMachID", "GenerateReMachID", "GenerateReMachIDWithInfo",
     "GenerateBoth", "GetOrGenerateReMachID", "GetOrGenerateEMachID",
     "GetOrGenerateBoth", "RotateEMachID"}

\* C27 (no identifier on failure), under SpecFailure: a call of one of the
\* eight operations that returns a non-nil error returns an empty id (both
\* ids empty and a nil result for GenerateBoth and GetOrGenerateBoth) and a
\* false usedFallback / fromCache flag.
C27_NoIdentifierOnFailure ==
    (out.op \in IdOps /\ out.err # Nil) =>
        /\ out.id = EmptyStr /\ out.eid = EmptyStr
        /\ ~out.flag
        /\ out.info = ZeroCache

\* RotateEMachID made a new id and failed to save it
C27_Witness ==
    /\ out.op = "RotateEMachID" /\ out.salt # EmptyStr
    /\ out.err # Nil /\ out.saveErr # Nil
    /\ out.id = EmptyStr

(***************************************************************************)
(* Properties of the configuration state.                                  *)
(***************************************************************************)
\* C28 (configuration snapshot), under SpecSnapshot: a resolution call on a
\* machine without hardware identifiers fails with
\* ErrStrictModeNoHardwareID exactly when the strict-mode flag was set when
\* the call was entered, and every warning of the call is delivered to the
\* sink that was installed when the call was entered, whatever
\* SetStrictMode and SetLogger calls run while the call is in progress.
C28_ConfigurationSnapshot ==
    out.op = "getHardwareIdentifiers" =>
        /\ out.strict <=> out.err = ErrStrictModeNoHardwareID
        /\ ~out.strict => Len(out.delivered) = Len(FallbackWarnings)
        /\ \A i \in 1..Len(out.delivered) : out.delivered[i][1] = out.sink

\* the operations that are not configuration calls
OtherOps ==
    {"GenerateReMachID", "GetOrGenerateReMachID", "ClearFallbackFiles",
     "ClearCache"}

\* C29 (strict-mode flag), under SpecConfig: the flag is false when a
\* process starts; SetStrictMode(b) leaves it equal to b; IsStrictMode
\* returns the flag and leaves it as it is, so it returns the argument of
\* the last SetStrictMode (false if there was none); and no generation,
\* cache, clear or logger operation, successful or failed, changes it.
C29_StrictModeFlag ==
    /\ ~strictMode
    /\ [][/\ out'.op = "SetStrictMode" => strictMode' = out'.flag
          /\ out'.op = "IsStrictMode" =>
                (out'.flag = strictMode /\ strictMode' = strictMode)
          /\ out'.op \in OtherOps \cup {"SetLogger"} => strictMode' = strictMode
          /\ out'.op \in OtherOps \cup {"SetLogger", "SetStrictMode",
                                        "IsStrictMode"}]_vars

\* IsStrictMode returns true after generation calls have provisioned the
\* token files, fallen back in strict mode and been refused
C29_Witness ==
    /\ out.op = "IsStrictMode" /\ out.flag
    /\ store.dir.exists /\ cache.exists

\* C30 (warning sink), under SpecConfig: SetLogger(f) installs f and
\* SetLogger(nil) a sink that discards, and nothing else changes the sink
\* within a process; every warning a call emits is delivered exactly once
\* and in emission order to the sink installed by the last SetLogger (the
\* default sink if there was none), so to no earlier sink; after
\* SetLogger(nil) no warning reaches stdout or a caller's function, the
\* nil function is never called, and the calls return what they return
\* under any other sink.
C30_WarningSink ==
    [][/\ out'.op = "SetLogger" =>
             loggerFunc' = IF out'.sink = NilLogger THEN Noop ELSE out'.sink
       /\ out'.op \notin {"SetLogger", "none"} =>
             /\ loggerFunc' = loggerFunc
             /\ Len(out'.delivered) = Len(out'.warns)
             /\ \A i \in 1..Len(out'.warns) :
                   out'.delivered[i] = <<loggerFunc, out'.warns[i]>>
       /\ loggerFunc' # NilLogger]_vars

\* after SetLogger(nil) a generation fell back: its three warnings went to
\* the discarding sink, and it returned an id
C30_Witness ==
    /\ out.op = "GenerateReMachID" /\ out.err = Nil
    /\ loggerFunc = Noop
    /\ Len(out.delivered) = Len(FallbackWarnings)
    /\ \A i \in 1..Len(out.delivered) : out.delivered[i][1] = Noop

(***************************************************************************)
(* Properties of the caching API in a changing environment (under          *)
(* SpecCached).                                                            *)
(***************************************************************************)
\* C35, under SpecCached: RotateEMachID with an empty salt returns
\* ErrEmptySalt and no id and leaves the cache file untouched.  With a
\* non-empty salt it succeeds whoever calls it (root or not): it returns an
\* id generated from the current time and the salt, and the cache then
\* holds the record it loaded with EMachID replaced by that id and
\* ActionCount 0, ReMachID, Salt and CreatedAt being what they were (when no
\* record could be loaded, a new record with only Salt and EMachID).  The
\* one other outcome is an operating-system failure of the save, returned
\* as an error.
C35_RotateEMachID ==
    [][out'.op = "RotateEMachID" =>
          LET l == LoadCachedIDsResult(cache)
              after == LoadCachedIDsResult(cache')
          IN  /\ out'.salt = EmptyStr =>
                    /\ out'.err = ErrEmptySalt /\ out'.id = EmptyStr
                    /\ ~out'.saved /\ cache' = cache
              /\ out'.salt # EmptyStr =>
                    \/ /\ out'.err = Nil
                       /\ \E t \in Instants :
                             out'.id = GenerateEMachIDResult(out'.salt, t).id
                       /\ after.err = Nil
                       /\ l.err = Nil =>
                             after.cache = [l.cache EXCEPT !.EMachID = out'.id,
                                                           !.ActionCount = 0]
                       /\ l.err # Nil =>
                             after.cache = CachedMachineIDs(EmptyStr, out'.id,
                                                            out'.salt, 0, 0)
                    \/ /\ out'.saved /\ out'.saveErr = ErrOS
                       /\ out'.id = EmptyStr
                       /\ out'.err = Wrap("failed to save rotated eMachID",
                                          ErrOS)]_vars

\* an unprivileged process has rotated the ephemeral id of a record that
\* root had written and whose counter had been raised: the counter is 0
\* again, the reconstructable id, the salt and the creation time are kept
C35_Witness ==
    /\ out.op = "RotateEMachID" /\ out.euid = User /\ out.err = Nil
    /\ out.salt = <<"a">>
    /\ LET l == LoadCachedIDsResult(cache)
       IN  /\ l.err = Nil
           /\ l.cache.ReMachID # EmptyStr
           /\ l.cache.Salt = <<"a", "a">>
           /\ l.cache.CreatedAt = Unix(MaxTime)
           /\ l.cache.EMachID = out.id
           /\ l.cache.EMachID # GenerateEMachIDResult(<<"a">>, MaxTime).id
           /\ l.cache.ActionCount = 0

(***************************************************************************)
(* Properties of the cached ephemeral id (under SpecCacheOps).             *)
(***************************************************************************)
\* C36, under SpecCacheOps: when the cache holds a record with a non-empty
\* EMachID, GetOrGenerateEMachID returns that value with fromCache = true
\* and a nil error whatever the request salt (the cached one, another one,
\* the empty one) and does not touch the cache file; and every operation
\* other than RotateEMachID and ClearCache leaves that EMachID in the
\* record, unless its save meets an operating-system failure.  When the
\* loaded record has an empty EMachID, a call with a non-empty salt returns
\* a generated id with fromCache = false and saves the loaded record with
\* only EMachID filled in (or warns that the save failed); a call with an
\* empty salt returns ErrEmptySalt and writes nothing.
C36_StickyEMachID ==
    [][LET l == LoadCachedIDsResult(cache)
           after == LoadCachedIDsResult(cache')
       IN  /\ l.err = Nil /\ l.cache.EMachID # EmptyStr
                /\ out'.op = "GetOrGenerateEMachID" =>
                  /\ out'.id = l.cache.EMachID /\ out'.flag /\ out'.err = Nil
                  /\ ~out'.saved /\ cache' = cache
           /\ l.err = Nil /\ l.cache.EMachID # EmptyStr
                /\ out'.op \notin {"RotateEMachID", "ClearCache"} =>
                  \/ after.err = Nil /\ after.cache.EMachID = l.cache.EMachID
                  \/ out'.saved /\ out'.saveErr = ErrOS
           /\ l.err = Nil /\ l.cache.EMachID = EmptyStr
                /\ out'.op = "GetOrGenerateEMachID" =>
                  IF out'.salt = EmptyStr
                  THEN /\ out'.err = ErrEmptySalt /\ out'.id = EmptyStr
                       /\ ~out'.flag /\ ~out'.saved /\ cache' = cache
                  ELSE /\ out'.err = Nil /\ ~out'.flag /\ out'.saved
                       /\ \E t \in Instants :
                             out'.id = GenerateEMachIDResult(out'.salt, t).id
                       /\ \/ /\ after.err = Nil
                             /\ after.cache
                                   = [l.cache EXCEPT !.EMachID = out'.id]
                          \/ /\ out'.saveErr = ErrOS
                             /\ WarnCacheEMachID \in Warned(out')]_vars

\* a call with the empty salt has been served the ephemeral id of a record
\* whose Salt is not empty, after the counter of that record was raised
C36_Witness ==
    /\ out.op = "GetOrGenerateEMachID" /\ out.salt = EmptyStr
    /\ out.flag /\ out.err = Nil /\ out.id # EmptyStr
    /\ LET l == LoadCachedIDsResult(cache)
       IN  /\ l.err = Nil
           /\ l.cache.EMachID = out.id
           /\ l.cache.Salt # EmptyStr
           /\ l.cache.ReMachID # EmptyStr
           /\ l.cache.ActionCount > 0

(***************************************************************************)
(* Properties of regeneration (under SpecRegenerate).                      *)
(***************************************************************************)
\* the call cannot be served from the cache: no record can be loaded, the
\* record has no reconstructable id, or its salt is another one
NeedsGeneration(file, salt) ==
    LET l == LoadCachedIDsResult(file)
    IN  \/ l.err # Nil
        \/ l.cache.ReMachID = EmptyStr
        \/ ~SaltMatches(l.cache.Salt, salt)

GenerationErrors ==
    {ErrNotRoot, ErrStrictModeNoHardwareID, ErrFallbackFileCreation}

\* C39, under SpecRegenerate: when GetOrGenerateReMachID cannot be served
\* from the cache, it returns the error of the generation whenever the
\* generation fails (ErrNotRoot for a caller that is not root,
\* ErrStrictModeNoHardwareID in strict mode without hardware identifiers,
\* an error wrapping ErrFallbackFileCreation when provisioning fails), and
\* then the id is empty, fromCache is false, no save is attempted and the
\* cache file is exactly what it was before the call.
C39_FailedRegeneration ==
    [][out'.op = "GetOrGenerateReMachID" /\ NeedsGeneration(cache, out'.salt) =>
          /\ euid # Root => out'.err = ErrNotRoot
          /\ euid = Root /\ strictMode /\ HardwareTiers(hw).serial = EmptyStr
                /\ HardwareTiers(hw).uuid = EmptyStr =>
                IsErr(out'.err, ErrStrictModeNoHardwareID)
          /\ out'.err # Nil =>
                /\ \E e \in GenerationErrors : IsErr(out'.err, e)
                /\ \E g \in GenerateReMachIDResults(euid, hw, strictMode,
                                                    store, out'.salt) :
                      g.err = out'.err
                /\ out'.id = EmptyStr /\ ~out'.flag
                /\ ~out'.saved /\ cache' = cache]_vars

\* a regeneration for another salt than the cached one has failed in the
\* provisioner: the call returned the error and the record of the first
\* salt is still in the cache
C39_Witness ==
    /\ out.op = "GetOrGenerateReMachID" /\ out.salt = <<"a", "a">>
    /\ IsErr(out.err, ErrFallbackFileCreation)
    /\ out.id = EmptyStr /\ ~out.flag
    /\ WarnSaltMismatch \in Warned(out)
    /\ LET l == LoadCachedIDsResult(cache)
       IN  /\ l.err = Nil
           /\ l.cache.ReMachID # EmptyStr
           /\ l.cache.Salt = <<"a">>

(***************************************************************************)
(* The cache against direct generation (under SpecCacheOps, where the      *)
(* hardware identifiers of the machine do not change).                     *)
(***************************************************************************)
\* the ids GenerateReMachID(salt) can return in the current state
GeneratedNow(salt) ==
    {g.id : g \in {r \in GenerateReMachIDResults(euid, hw, strictMode, store,
                                                  salt) : r.err = Nil}}

DigestsWith(salt) ==
    {g.id : g \in {r \in UNION {GenerateReMachIDResults(Root, machine, FALSE,
                                                        store, salt) :
                                 machine \in CacheMachines} : r.err = Nil}}

\* C37, under SpecCached: in every state the cache operations reach from an
\* absent cache, a persisted record with a non-empty ReMachID holds the
\* digest computed with the Salt of that record.
C37_SaltCoherence ==
    LET l == LoadCachedIDsResult(cache)
    IN  l.err = Nil /\ l.cache.ReMachID # EmptyStr =>
            l.cache.ReMachID \in DigestsWith(l.cache.Salt)

\* C33, under SpecCached: a GetOrGenerateReMachID(salt) call that generated
\* an id and saved it leaves a record holding that id with Salt = salt;
\* while the record holds an id with the Salt of the request,
\* GetOrGenerateReMachID returns that id with fromCache = true and a nil
\* error whoever calls it, in strict mode or not, whatever the hardware has
\* become; and the id and Salt of the record stay until ClearCache or a
\* regeneration for another salt (or an operating-system failure of a
\* save).
C33_CachedIdServed ==
    [][LET l == LoadCachedIDsResult(cache)
           after == LoadCachedIDsResult(cache')
           held == l.err = Nil /\ l.cache.ReMachID # EmptyStr
       IN  /\ out'.op = "GetOrGenerateReMachID" /\ out'.err = Nil
                /\ ~out'.flag /\ out'.saved /\ out'.saveErr = Nil =>
                  /\ after.err = Nil
                  /\ after.cache.ReMachID = out'.id
                  /\ after.cache.Salt = out'.salt
           /\ held /\ out'.op = "GetOrGenerateReMachID"
                /\ l.cache.Salt = out'.salt =>
                  /\ out'.flag /\ out'.err = Nil
                  /\ out'.id = l.cache.ReMachID
                  /\ cache' = cache
           /\ held /\ out'.op # "ClearCache"
                /\ ~(out'.op \in {"GetOrGenerateReMachID", "GetOrGenerateBoth"}
                     /\ ~SaltMatches(l.cache.Salt, out'.salt)) =>
                  \/ /\ after.err = Nil
                     /\ after.cache.ReMachID = l.cache.ReMachID
                     /\ after.cache.Salt = l.cache.Salt
                  \/ out'.saved /\ out'.saveErr = ErrOS]_vars

(***************************************************************************)
(* The provisioner, token by token (under Spec).                           *)
(***************************************************************************)
\* the token files a provisioning call finds missing or empty
TokensNeeded(fb) == {f \in TokenFiles : NeedsToken(fb, f)}

\* the token a resolver result returned for a file
TokenOf(res, f) == IF f = fallbackSerialFile THEN res.serial ELSE res.uuid

\* C34, under Spec: in every call that reaches ensureFallbackFiles, a token
\* file that holds a non-empty value is left as it is and, when the call
\* succeeds, its value is the token returned; a successful call generates
\* and writes exactly the tokens that were missing or empty.  A failing
\* call (the directory cannot be created, the random source fails, a token
\* cannot be written) returns an error wrapping ErrFallbackFileCreation
\* and no tokens, never having touched a token that was present, and the
\* resolver returns that error with empty serial and uuid and
\* usedFallback = false.
C34_TokenIndependence ==
    [][out'.res.called /\ out'.res.ens.called =>
          /\ \A f \in TokenFiles \ TokensNeeded(store) :
                /\ store'.files[f] = store.files[f]
                /\ f \notin out'.res.ens.generated
                /\ out'.res.ens.err = Nil =>
                      TokenOf(out'.res, f) = TrimSpace(store.files[f].data)
          /\ out'.res.ens.err = Nil =>
                /\ out'.res.ens.generated = TokensNeeded(store)
                /\ \A f \in TokensNeeded(store) :
                      /\ TokenOf(out'.res, f) \in TokenValues
                      /\ store'.files[f].exists
                      /\ store'.files[f].data = TokenOf(out'.res, f)
                /\ out'.res.usedFallback /\ out'.res.err = Nil
          /\ out'.res.ens.err # Nil =>
                /\ IsErr(out'.res.ens.err, ErrFallbackFileCreation)
                /\ out'.res.ens.serial = EmptyStr
                /\ out'.res.ens.uuid = EmptyStr
                /\ out'.res.ens.generated \subseteq TokensNeeded(store)
                /\ out'.res.err = out'.res.ens.err
                /\ out'.res.serial = EmptyStr /\ out'.res.uuid = EmptyStr
                /\ ~out'.res.usedFallback]_vars

\* a call has found the serial token of an earlier, failed provisioning and
\* has generated the uuid token alone
C34_Witness ==
    /\ out.res.called /\ out.res.ens.called /\ out.res.ens.err = Nil
    /\ out.res.ens.generated = {fallbackUUIDFile}
    /\ out.changed = {fallbackUUIDFile}
    /\ out.res.serial = store.files[fallbackSerialFile].data
    /\ out.res.uuid = store.files[fallbackUUIDFile].data
    /\ out.res.usedFallback

(***************************************************************************)
(* The cache location (under SpecLocation).                                *)
(***************************************************************************)
\* the cache file of directory d
FileAt(d) ==
    IF d = getCacheDir(euid, login, disk.dirs) THEN cache ELSE disk.files[d]

\* the record a run elevated through sudo left in its cache file
ElevatedRecord == LoadCachedIDsResult(FileAt(getCacheDir(Root, login, disk.dirs)))

\* C32, under SpecLocation: a GetOrGenerateReMachID(salt) of a run that is
\* not elevated returns, with fromCache = true, the id that a run of the
\* same user elevated through sudo has cached for that salt (the two runs
\* use the same cache directory); and a run uses the directory under /tmp
\* only when the home directory of the user cannot be resolved.
C32_CacheLocation ==
    [][out'.op = "GetOrGenerateReMachID" =>
          /\ euid = User /\ ElevatedRecord.err = Nil
                /\ ElevatedRecord.cache.ReMachID # EmptyStr
                /\ ElevatedRecord.cache.Salt = out'.salt =>
                  /\ out'.flag /\ out'.err = Nil
                  /\ out'.id = ElevatedRecord.cache.ReMachID
          /\ getCacheDir(euid, login, disk.dirs)
                = FilepathJoin(TmpDir, cacheSubDir) =>
                  UserHomeDir(login).err # Nil \/ login.home \notin disk.dirs]_vars


(***************************************************************************)
(* C31, under SpecSaves: last write wins.  Whenever every concurrent       *)
(* GetOrGenerateReMachID, GetOrGenerateEMachID, RotateEMachID and          *)
(* IncrementActionCount call has finished and some call has saved, the     *)
(* cache file holds exactly the document of the save that wrote last: it   *)
(* loads without error as the complete record of that save, with no field  *)
(* or byte of another save.                                                *)
(***************************************************************************)
AllFinished == \A p \in Procs : procs[p].pc = "idle"

C31_LastWriteWins ==
    AllFinished =>
        \A p \in Procs :
            procs[p].written =>
                /\ cache.exists
                /\ cache.data = procs[p].data
                /\ LoadCachedIDsResult(cache).err = Nil
                /\ LoadCachedIDsResult(cache).cache = Unmarshal(procs[p].data).cache


(***************************************************************************)
(* C40, under SpecLocksFair: no deadlock on the configuration locks.  For  *)
(* concurrent GenerateReMachID, SetStrictMode, IsStrictMode and SetLogger  *)
(* calls and a sink that returns: no process ever holds strictModeMu and   *)
(* loggerFuncMu at the same time, a process that is not in a call holds no *)
(* lock, waits for none and is announced as the writer of none, and every  *)
(* call that has started eventually returns.                               *)
(***************************************************************************)
InLock(rw, p) == p \in rw.readers \/ p \in rw.blocked \/ rw.writer = p

NeverBothLocks ==
    \A p \in LockProcs :
        ~(Holds(locks["strictModeMu"], p) /\ Holds(locks["loggerFuncMu"], p))

NoLockAfterReturn ==
    \A p \in LockProcs :
        procs[p].pc = "idle" => \A mu \in Mutexes : ~InLock(locks[mu], p)

C40_NoLockDeadlock ==
    /\ []NeverBothLocks
    /\ []NoLockAfterReturn
    /\ \A p \in LockProcs : (procs[p].pc # "idle") ~> (procs[p].pc = "idle")

\* a SetLogger call is announced as the writer of loggerFuncMu and waits
\* for a GenerateReMachID call that holds the read lock while the sink
\* runs on its last warning
C40_Witness ==
    \E p, q \in LockProcs :
        /\ procs[p].pc = "sink"
        /\ Holds(locks["loggerFuncMu"], p)
        /\ procs[p].n = 1
        /\ procs[q].pc = "LockWait"
        /\ locks["loggerFuncMu"].writer = q

=============================================================================
